---------------------------- MODULE Spec2Model ----------------------------
(***************************************************************************)
(* Model of sensai.hyperopt: the flat combination iterator, the            *)
(* equivalence-class cache, the result collection with its CSV             *)
(* persistence, and the grid-search orchestrator (sequential and           *)
(* parallel).                                                              *)
(*                                                                         *)
(* Representation.  A Python dict is a sequence of <<key, value>> pairs    *)
(* with distinct keys, in insertion order.  A Python value is a record     *)
(* with a type tag; a text (the result of str(), a CSV cell, a file name)  *)
(* is a sequence of tokens, so that str() and the CSV round trip are       *)
(* conversions that lose the type, as they do in the program.              *)
(***************************************************************************)
EXTENDS Integers, Sequences, FiniteSets, TLC

(***************************************************************************)
(* Bounds of the model.                                                    *)
(***************************************************************************)
\* the longest list of alternative parameter-option mappings
MaxAlternatives == 2
\* the number of grid searches run one after the other on the same paths
MaxRuns == 2
\* the largest worker pool of a parallel grid search
MaxProcesses == 2
MaxCacheOps == 3
MaxSteps == 2
MaxEvaluations == 4
MaxAdds == 2
MaxParams == 2
MaxOptions == 3
MaxIterators == 2

(***************************************************************************)
(* Python values and their textual form.                                   *)
(***************************************************************************)
IntV(n) == [ty |-> "int", n |-> n]
StrV(s) == [ty |-> "str", s |-> s]
FloatV(n) == [ty |-> "float", n |-> n]
NoneV == [ty |-> "none"]
NaNV == [ty |-> "nan"]

Digit == <<"0", "1", "2", "3", "4", "5", "6", "7", "8", "9">>

RECURSIVE ToStr(_)
ToStr(n) ==
    IF n < 10 THEN <<Digit[n + 1]>>
    ELSE ToStr(n \div 10) \o <<Digit[(n % 10) + 1]>>

\* str(v)
Str(v) ==
    CASE v.ty = "int" -> ToStr(v.n)
      [] v.ty = "float" -> ToStr(v.n) \o <<".0">>
      [] v.ty = "str" -> v.s
      [] v.ty = "none" -> <<"None">>
      [] v.ty = "nan" -> <<"nan">>

IsMissing(v) == v.ty \in {"none", "nan"}

(***************************************************************************)
(* Ordered dicts.                                                          *)
(***************************************************************************)
Keys(d) == {d[i][1] : i \in DOMAIN d}
KeyList(d) == [i \in DOMAIN d |-> d[i][1]]
Has(d, k) == \E i \in DOMAIN d : d[i][1] = k
\* d.get(k): None when the key is absent
Get(d, k) ==
    IF Has(d, k) THEN d[CHOOSE i \in DOMAIN d : d[i][1] = k][2] ELSE NoneV
\* d[k] = v: an existing key keeps its position
Put(d, k, v) ==
    IF Has(d, k)
    THEN [i \in DOMAIN d |-> IF d[i][1] = k THEN <<k, v>> ELSE d[i]]
    ELSE Append(d, <<k, v>>)

RECURSIVE Update(_, _)
\* d.update(e)
Update(d, e) ==
    IF e = <<>> THEN d
    ELSE Update(Put(d, e[1][1], e[1][2]), Tail(e))

RECURSIVE Concat(_)
Concat(ss) == IF ss = <<>> THEN <<>> ELSE ss[1] \o Concat(Tail(ss))

Range(s) == {s[i] : i \in DOMAIN s}

(***************************************************************************)
(* iter_param_combinations                                                 *)
(***************************************************************************)
RECURSIVE IterRecursiveParamCombinations(_, _, _)
IterRecursiveParamCombinations(pairs, i, params) ==
    IF i = Len(pairs) + 1 THEN <<params>>
    ELSE Concat([j \in DOMAIN pairs[i][2] |->
             IterRecursiveParamCombinations(
                 pairs, i + 1, Put(params, pairs[i][1], pairs[i][2][j]))])

IterParamCombinations(hyper_param_values) ==
    IterRecursiveParamCombinations(hyper_param_values, 1, <<>>)

\* a run that goes through the alternatives from the last to the first
EnumerateAllLastFirst(parameter_options_list) ==
    Concat([k \in DOMAIN parameter_options_list |->
               IterParamCombinations(
                   parameter_options_list[Len(parameter_options_list) + 1 - k])])

\* the enumeration of run: the alternatives' enumerations, one after the other
EnumerateAll(parameter_options_list) ==
    Concat([k \in DOMAIN parameter_options_list |->
               IterParamCombinations(parameter_options_list[k])])

(***************************************************************************)
(* ParametersMetricsCollection and its CSV file.                           *)
(*                                                                         *)
(* A data frame is [exists, cols, rows]: exists is FALSE for df = None;    *)
(* a row is a sequence of values aligned with cols.  A CSV file is         *)
(* [exists, cols, rows] with rows of texts; the empty text is an empty     *)
(* cell.                                                                   *)
(***************************************************************************)
NoColumn == "<None>"
NoDf == [exists |-> FALSE, cols |-> <<>>, rows |-> <<>>]
NoFile == [exists |-> FALSE, cols |-> <<>>, rows |-> <<>>]

IndexOf(seq, x) == CHOOSE i \in DOMAIN seq : seq[i] = x
SelectSeqNe(seq, x) == SelectSeq(seq, LAMBDA y : y # x)

\* DataFrame.to_csv: a cell holds the text of the value, a missing value is empty
ToCsvCell(v) == IF IsMissing(v) THEN <<>> ELSE Str(v)

ToCsv(df) ==
    [exists |-> TRUE, cols |-> df.cols,
     rows |-> [r \in DOMAIN df.rows |->
                  [c \in DOMAIN df.cols |-> ToCsvCell(df.rows[r][c])]]]

IsNumeral(tok) == \E k \in DOMAIN Digit : Digit[k] = tok
IsNumericText(t) == Len(t) >= 1 /\ \A k \in DOMAIN t : IsNumeral(t[k])

RECURSIVE ParseInt(_)
ParseInt(t) ==
    IF t = <<>> THEN 0
    ELSE 10 * ParseInt(SubSeq(t, 1, Len(t) - 1))
            + (IndexOf(Digit, t[Len(t)]) - 1)

\* the text of a float, as str writes it
IsFloatText(t) ==
    Len(t) >= 2 /\ t[Len(t)] = ".0" /\ IsNumericText(SubSeq(t, 1, Len(t) - 1))
ParseNumber(t) == IF IsFloatText(t) THEN ParseInt(SubSeq(t, 1, Len(t) - 1)) ELSE ParseInt(t)

\* pandas.read_csv: the type of a column is inferred from all of its cells
ReadCsvCell(file, r, c) ==
    LET cells == {file.rows[q][c] : q \in DOMAIN file.rows}
        t == file.rows[r][c]
        numeric == \A u \in cells : u = <<>> \/ IsNumericText(u) \/ IsFloatText(u)
        integral == \A u \in cells : IsNumericText(u)
    IN  IF t = <<>> THEN NaNV
        ELSE IF numeric
             THEN IF integral THEN IntV(ParseNumber(t)) ELSE FloatV(ParseNumber(t))
             ELSE StrV(t)

ReadCsv(file) ==
    [exists |-> TRUE, cols |-> file.cols,
     rows |-> [r \in DOMAIN file.rows |->
                  [c \in DOMAIN file.cols |-> ReadCsvCell(file, r, c)]]]

\* DataFrame.itertuples names a field positionally when the column name is no
\* identifier (or repeats the Index field)
PositionalName == <<"_1", "_2", "_3", "_4", "_5", "_6", "_7", "_8", "_9", "_10", "_11", "_12">>
IsIdentifier(col) == col \notin {"str(model)", "Index", NoColumn}
FieldName(col, pos) == IF IsIdentifier(col) THEN col ELSE PositionalName[pos]

\* [nt._asdict() for nt in df.itertuples()]
Itertuples(df) ==
    [r \in DOMAIN df.rows |->
        <<<<"Index", IntV(r - 1)>>>> \o
        [c \in DOMAIN df.cols |-> <<FieldName(df.cols[c], c), df.rows[r][c]>>]]

\* a constructor that loads the frame but not the rows contains looks at
NewCollectionWithoutValueDicts(csv_path, sort_column_name, ascending, incremental, file) ==
    LET csv_path_exists == csv_path /\ file.exists
        loaded == ReadCsv(file)
    IN  [sort_column_name |-> sort_column_name, csv_path |-> csv_path,
         ascending |-> ascending,
         df |-> IF csv_path_exists /\ incremental THEN loaded ELSE NoDf,
         current_row |-> IF csv_path_exists /\ incremental THEN Len(loaded.rows) ELSE 0,
         value_dicts |-> <<>>]

\* a constructor that starts with an empty frame where there is none to load
NewCollectionWithEmptyFrame(csv_path, sort_column_name, ascending, incremental, file) ==
    LET csv_path_exists == csv_path /\ file.exists
        loaded == ReadCsv(file)
    IN  IF csv_path_exists /\ incremental
        THEN [sort_column_name |-> sort_column_name, csv_path |-> csv_path,
              ascending |-> ascending, df |-> loaded,
              current_row |-> Len(loaded.rows), value_dicts |-> Itertuples(loaded)]
        ELSE [sort_column_name |-> sort_column_name, csv_path |-> csv_path,
              ascending |-> ascending, df |-> [exists |-> TRUE, cols |-> <<>>, rows |-> <<>>],
              current_row |-> 0, value_dicts |-> <<>>]

\* ParametersMetricsCollection.__init__
NewCollection(csv_path, sort_column_name, ascending, incremental, file) ==
    LET csv_path_exists == csv_path /\ file.exists
        loaded == ReadCsv(file)
    IN  IF csv_path_exists /\ incremental
        THEN [sort_column_name |-> sort_column_name, csv_path |-> csv_path,
              ascending |-> ascending, df |-> loaded,
              current_row |-> Len(loaded.rows), value_dicts |-> Itertuples(loaded)]
        ELSE [sort_column_name |-> sort_column_name, csv_path |-> csv_path,
              ascending |-> ascending, df |-> NoDf,
              current_row |-> 0, value_dicts |-> <<>>]

\* Python's == on two values: numbers compare by value, NaN equals nothing
PyEq(v, w) ==
    IF v.ty = "nan" \/ w.ty = "nan" THEN FALSE
    ELSE IF v.ty \in {"int", "float"} /\ w.ty \in {"int", "float"} THEN v.n = w.n
    ELSE v = w

\* the entry of one row agrees with v
EntryAgrees(ev, v) == PyEq(ev, v) \/ Str(ev) = Str(v)

\* contains that lets every key be matched by a row of its own
ContainsRowPerKey(pmc, values) ==
    \A i \in DOMAIN values :
        \E r \in DOMAIN pmc.value_dicts :
            EntryAgrees(Get(pmc.value_dicts[r], values[i][1]), values[i][2])

\* contains that compares values only, not their texts
ContainsByValue(pmc, values) ==
    \E r \in DOMAIN pmc.value_dicts :
        \A i \in DOMAIN values :
            PyEq(Get(pmc.value_dicts[r], values[i][1]), values[i][2])

\* ParametersMetricsCollection.contains
Contains(pmc, values) ==
    \E r \in DOMAIN pmc.value_dicts :
        \A i \in DOMAIN values :
            EntryAgrees(Get(pmc.value_dicts[r], values[i][1]), values[i][2])

\* an order that sorts ascending whatever was configured
SortsBeforeAscending(v, w, ascending) ==
    IF IsMissing(w) THEN TRUE
    ELSE IF IsMissing(v) THEN FALSE
    ELSE v.n <= w.n

\* the order of DataFrame.sort_values on one column: missing values last
SortsBefore(v, w, ascending) ==
    IF IsMissing(w) THEN TRUE
    ELSE IF IsMissing(v) THEN FALSE
    ELSE IF ascending THEN v.n <= w.n ELSE v.n >= w.n

StrictlyBefore(v, w, ascending) ==
    SortsBefore(v, w, ascending) /\ ~SortsBefore(w, v, ascending)

RECURSIVE SortValues(_, _, _)
\* DataFrame.sort_values on column c.  Rows with equal keys keep their order,
\* as the default sort leaves them in a table of fewer than 16 rows; a larger
\* table may come out with equal keys in another order.
SortValues(rows, c, ascending) ==
    IF rows = <<>> THEN <<>>
    ELSE LET init == SortValues(SubSeq(rows, 1, Len(rows) - 1), c, ascending)
             last == rows[Len(rows)]
             keep == {k \in DOMAIN init :
                         ~StrictlyBefore(last[c], init[k][c], ascending)}
             n == IF keep = {} THEN 0 ELSE CHOOSE k \in keep : \A j \in keep : j <= k
         IN  SubSeq(init, 1, n) \o <<last>> \o SubSeq(init, n + 1, Len(init))

\* the columns of the first record in the order of its keys
FirstColumnsAsGiven(sort_column_name, values) == KeyList(values)

\* the columns of the frame created by the first add_values
FirstColumns(sort_column_name, values) ==
    LET cols == KeyList(values)
    IN  IF sort_column_name # NoColumn /\ sort_column_name \in Range(cols)
        THEN <<sort_column_name>> \o SelectSeqNe(cols, sort_column_name)
        ELSE cols

\* a frame in which every column named by values is set to None
WithColumnsReset(df, values) ==
    LET new == SelectSeq(KeyList(values), LAMBDA k : k \notin Range(df.cols))
    IN  [exists |-> TRUE, cols |-> df.cols \o new,
         rows |-> [r \in DOMAIN df.rows |->
                      [c \in DOMAIN df.cols |->
                          IF Has(values, df.cols[c]) THEN NoneV ELSE df.rows[r][c]]
                      \o [k \in DOMAIN new |-> NoneV]]]

\* the frame with a column of None for every key of values it has no column for
WithNewColumns(df, values) ==
    LET new == SelectSeq(KeyList(values), LAMBDA k : k \notin Range(df.cols))
    IN  [exists |-> TRUE, cols |-> df.cols \o new,
         rows |-> [r \in DOMAIN df.rows |->
                      df.rows[r] \o [k \in DOMAIN new |-> NoneV]]]

\* add_values that also lists the record among the rows contains looks at
AddValuesRemembered(pmc, values) ==
    LET df0 == IF ~pmc.df.exists
               THEN [exists |-> TRUE,
                     cols |-> FirstColumns(pmc.sort_column_name, values),
                     rows |-> <<>>]
               ELSE WithNewColumns(pmc.df, values)
        row == [c \in DOMAIN df0.cols |-> Get(values, df0.cols[c])]
        rows1 == Append(df0.rows, row)
        sorting == pmc.sort_column_name # NoColumn
                     /\ pmc.sort_column_name \in Range(df0.cols)
        rows2 == IF sorting
                 THEN SortValues(rows1, IndexOf(df0.cols, pmc.sort_column_name),
                                 pmc.ascending)
                 ELSE rows1
    IN  [pmc EXCEPT !.df = [df0 EXCEPT !.rows = rows2],
                    !.current_row = pmc.current_row + 1,
                    !.value_dicts = Append(pmc.value_dicts, values)]

\* ParametersMetricsCollection.add_values, up to the save
AddValues(pmc, values) ==
    LET df0 == IF ~pmc.df.exists
               THEN [exists |-> TRUE,
                     cols |-> FirstColumns(pmc.sort_column_name, values),
                     rows |-> <<>>]
               ELSE WithNewColumns(pmc.df, values)
        row == [c \in DOMAIN df0.cols |-> Get(values, df0.cols[c])]
        rows1 == Append(df0.rows, row)
        sorting == pmc.sort_column_name # NoColumn
                     /\ pmc.sort_column_name \in Range(df0.cols)
        rows2 == IF sorting
                 THEN SortValues(rows1, IndexOf(df0.cols, pmc.sort_column_name),
                                 pmc.ascending)
                 ELSE rows1
    IN  [pmc EXCEPT !.df = [df0 EXCEPT !.rows = rows2],
                    !.current_row = pmc.current_row + 1]

\* a save that appends the last row of the frame to an existing file
SaveCsvAppendingLastRow(pmc, file) ==
    IF ~pmc.csv_path THEN file
    ELSE IF file.exists /\ file.cols = pmc.df.cols
         THEN [file EXCEPT !.rows = Append(@, ToCsv(pmc.df).rows[Len(pmc.df.rows)])]
         ELSE ToCsv(pmc.df)

\* a save that writes a new file but leaves an existing file alone
SaveCsvUnlessExists(pmc, file) ==
    IF pmc.csv_path /\ ~file.exists THEN ToCsv(pmc.df) ELSE file

\* ParametersMetricsCollection._save_csv: the file after the save
SaveCsv(pmc, file) == IF pmc.csv_path THEN ToCsv(pmc.df) ELSE file

(***************************************************************************)
(* The inputs of the grid search: parameter values, option mappings, the   *)
(* external model factory, evaluator and skip decider.                     *)
(***************************************************************************)
I1 == IntV(1)
I2 == IntV(2)
S1 == StrV(<<"1">>)
Sx == StrV(<<"x">>)
Sy == StrV(<<"y">>)
Sz == StrV(<<"z">>)

\* the options of Scenario A; options with the same keys in another order; options
\* with one key more and with one key less, the latter with a string that reads as
\* a number
OptAB == << <<"a", <<I1, I2>> >>, <<"b", <<Sx, Sy>> >> >>
OptBA == << <<"b", <<Sz>> >>, <<"a", <<I2, I1>> >> >>
OptABC == << <<"a", <<I1>> >>, <<"b", <<Sx>> >>, <<"c", <<I1>> >> >>
OptA == << <<"a", <<I1, I2, S1>> >> >>
Mappings == {OptAB, OptBA, OptABC, OptA}

\* parameter_options as given to GridSearch: lists of alternative mappings
OptionLists == UNION {[1..n -> Mappings] : n \in 1..MaxAlternatives}

\* the metric the evaluator computes for the model of a combination
Metric(params) ==
    LET a == Get(params, "a")
    IN  2 * (IF a.ty = "int" THEN a.n ELSE 0)
          + (IF Get(params, "b") = Sy THEN 1 ELSE 0)

\* metrics_evaluator.compute_metrics(model)
ComputeMetrics(params) == << <<"m", IntV(Metric(params))>> >>

\* str(model)
StrModel(params) ==
    StrV(<<"Model(">> \o Concat([i \in DOMAIN params |-> Str(params[i][2])]) \o <<")">>)

\* f"{grid_search_name}_{combination_idx}.pickle"
Filename(grid_search_name, combination_idx) ==
    StrV(<<grid_search_name, "_">> \o ToStr(combination_idx) \o <<".pickle">>)

\* the stages of evaluating one combination at which the environment may fail
FailStages == {"build", "evaluate", "save"}
\* the combinations for which the failing stage fails
Fails(params) == Get(params, "a") = I2

\* the skip deciders: none, one that rejects inadmissible combinations, one
\* that rejects a combination equivalent to one it was told
Deciders == {"none", "inadmissible", "equivalent"}
IsSkipped(decider, told, params) ==
    CASE decider = "inadmissible" -> Get(params, "b") = Sy
      [] decider = "equivalent" ->
            \E t \in DOMAIN told : Get(told[t][1], "a") = Get(params, "a")
      [] OTHER -> FALSE

(***************************************************************************)
(* GridSearch._eval_params as a function: what one call does, given the    *)
(* decider's state.  The outcome is "skipped", "failed" or "ok"; calls     *)
(* lists the calls made on the collaborators, in order.                    *)
(***************************************************************************)
Call(op, params, idx) == [op |-> op, params |-> params, idx |-> idx, ret |-> "None"]
\* the call of is_skipped, with what the decider answered
Asked(decider, told, params, idx) ==
    [op |-> "is_skipped", params |-> params, idx |-> idx,
     ret |-> IF IsSkipped(decider, told, params) THEN "True" ELSE "False"]

\* _eval_params with the model built before the skip decider is asked
EvalParamsBuildingFirst(decider, told, fail_stage, grid_search_name, combination_idx, model_save_directory, params) ==
    LET asks == IF decider # "none"
                THEN <<Asked(decider, told, params, combination_idx)>> ELSE <<>>
        fails == Fails(params)
        saving == model_save_directory
        filename == Filename(grid_search_name, combination_idx)
        values0 == ComputeMetrics(params)
        values1 == IF saving THEN Put(values0, "filename", filename) ELSE values0
        values2 == Put(values1, "str(model)", StrModel(params))
        values == Update(values2, params)
        build == <<Call("model_factory", params, combination_idx)>>
        evaluate == <<Call("compute_metrics", params, combination_idx)>>
        save == IF saving THEN <<Call("save", params, combination_idx)>> ELSE <<>>
        tell == IF decider # "none"
                THEN <<Call("tell", params, combination_idx)>> ELSE <<>>
        nothing == [outcome |-> "skipped", calls |-> asks, values |-> <<>>,
                    saved |-> {}, told |-> told]
    IN  IF decider # "none" /\ IsSkipped(decider, told, params)
        THEN [nothing EXCEPT !.calls = build \o asks]
        ELSE IF fails /\ fail_stage = "build"
        THEN [nothing EXCEPT !.outcome = "failed", !.calls = asks \o build]
        ELSE IF fails /\ fail_stage = "evaluate"
        THEN [nothing EXCEPT !.outcome = "failed", !.calls = asks \o build \o evaluate]
        ELSE IF fails /\ fail_stage = "save" /\ saving
        THEN [nothing EXCEPT !.outcome = "failed",
                             !.calls = asks \o build \o evaluate \o save]
        ELSE [outcome |-> "ok",
              calls |-> asks \o build \o evaluate \o save \o tell,
              values |-> values,
              saved |-> IF saving THEN {filename.s} ELSE {},
              told |-> IF decider # "none"
                       THEN Append(told, <<params, values>>) ELSE told]

\* _eval_params that tells the skip decider of a combination it skipped
EvalParamsTellingSkipped(decider, told, fail_stage, grid_search_name, combination_idx, model_save_directory, params) ==
    LET asks == IF decider # "none"
                THEN <<Asked(decider, told, params, combination_idx)>> ELSE <<>>
        fails == Fails(params)
        saving == model_save_directory
        filename == Filename(grid_search_name, combination_idx)
        values0 == ComputeMetrics(params)
        values1 == IF saving THEN Put(values0, "filename", filename) ELSE values0
        values2 == Put(values1, "str(model)", StrModel(params))
        values == Update(values2, params)
        build == <<Call("model_factory", params, combination_idx)>>
        evaluate == <<Call("compute_metrics", params, combination_idx)>>
        save == IF saving THEN <<Call("save", params, combination_idx)>> ELSE <<>>
        tell == IF decider # "none"
                THEN <<Call("tell", params, combination_idx)>> ELSE <<>>
        nothing == [outcome |-> "skipped", calls |-> asks, values |-> <<>>,
                    saved |-> {}, told |-> told]
    IN  IF decider # "none" /\ IsSkipped(decider, told, params)
        THEN [nothing EXCEPT !.calls = asks \o tell,
                             !.told = Append(told, <<params, <<>>>>)]
        ELSE IF fails /\ fail_stage = "build"
        THEN [nothing EXCEPT !.outcome = "failed", !.calls = asks \o build]
        ELSE IF fails /\ fail_stage = "evaluate"
        THEN [nothing EXCEPT !.outcome = "failed", !.calls = asks \o build \o evaluate]
        ELSE IF fails /\ fail_stage = "save" /\ saving
        THEN [nothing EXCEPT !.outcome = "failed",
                             !.calls = asks \o build \o evaluate \o save]
        ELSE [outcome |-> "ok",
              calls |-> asks \o build \o evaluate \o save \o tell,
              values |-> values,
              saved |-> IF saving THEN {filename.s} ELSE {},
              told |-> IF decider # "none"
                       THEN Append(told, <<params, values>>) ELSE told]

EvalParams(decider, told, fail_stage, grid_search_name, combination_idx, model_save_directory, params) ==
    LET asks == IF decider # "none"
                THEN <<Asked(decider, told, params, combination_idx)>> ELSE <<>>
        fails == Fails(params)
        saving == model_save_directory
        filename == Filename(grid_search_name, combination_idx)
        values0 == ComputeMetrics(params)
        values1 == IF saving THEN Put(values0, "filename", filename) ELSE values0
        values2 == Put(values1, "str(model)", StrModel(params))
        values == Update(values2, params)
        build == <<Call("model_factory", params, combination_idx)>>
        evaluate == <<Call("compute_metrics", params, combination_idx)>>
        save == IF saving THEN <<Call("save", params, combination_idx)>> ELSE <<>>
        tell == IF decider # "none"
                THEN <<Call("tell", params, combination_idx)>> ELSE <<>>
        nothing == [outcome |-> "skipped", calls |-> asks, values |-> <<>>,
                    saved |-> {}, told |-> told]
    IN  IF decider # "none" /\ IsSkipped(decider, told, params)
        THEN nothing
        ELSE IF fails /\ fail_stage = "build"
        THEN [nothing EXCEPT !.outcome = "failed", !.calls = asks \o build]
        ELSE IF fails /\ fail_stage = "evaluate"
        THEN [nothing EXCEPT !.outcome = "failed", !.calls = asks \o build \o evaluate]
        ELSE IF fails /\ fail_stage = "save" /\ saving
        THEN [nothing EXCEPT !.outcome = "failed",
                             !.calls = asks \o build \o evaluate \o save]
        ELSE [outcome |-> "ok",
              calls |-> asks \o build \o evaluate \o save \o tell,
              values |-> values,
              saved |-> IF saving THEN {filename.s} ELSE {},
              told |-> IF decider # "none"
                       THEN Append(told, <<params, values>>) ELSE told]

(***************************************************************************)
(* The state.                                                              *)
(***************************************************************************)
VARIABLES
    setup,            \* what the caller passes to every grid search of the behaviour
    run_no,           \* the number of the grid search under way
    pc,               \* where the grid search under way is
    gs,               \* the GridSearch object
    env,              \* the environment of the run: the stage that fails, if any,
                      \* and the file found at csv_results_path when run began
    todo,             \* the combinations the loops of run have yet to enumerate
    combination_idx,  \* run's combination_idx
    pmc,              \* run's params_metrics_collection
    futures,          \* run's futures, with the state of each submitted unit
    told,             \* what the orchestrator's skip decider has been told
    calls,            \* the calls made on the collaborators in this run, in order
    csv_file,         \* the file at csv_results_path
    model_files,      \* the files in model_save_directory
    result,           \* what run returned
    cache,            \* ParameterCombinationEquivalenceClassValueCache._cache
    cache_log,        \* the calls of set and get on the cache, with what get returned
    sa,               \* the annealing run under way: the State object and the results
    it                \* a generator of iter_param_combinations and the dicts it yielded,
                      \* or the iterators of option generators and what they yielded

vars == <<setup, run_no, pc, gs, env, todo, combination_idx, pmc, futures, told, calls, csv_file, model_files, result, cache, cache_log, sa, it>>

GridSearchName == "gs"
NoGs == [constructed |-> FALSE]
NoPmc == NewCollection(FALSE, NoColumn, TRUE, FALSE, NoFile)
NoResult == [returned |-> FALSE]
NoEnv == [fail_stage |-> "none", found |-> NoFile]
\* no cost asked of the state or of an operator yet
NoLast == [by |-> "none"]
\* no annealing run yet; evals counts the cost evaluations of the adapter, last
\* is the latest call of compute_cost_value or cost_delta: the state's params
\* and cost when it was called, the proposal, the parameters it had evaluated,
\* the metrics it got, the value it returned, and whether the engine went on
\* to apply the proposal
NoSa == [started |-> FALSE, params |-> <<>>, cost |-> 0, results |-> <<>>,
         steps |-> 0, max_steps |-> 0, evals |-> 0, last |-> NoLast,
         initial_parameters |-> <<>>]

\* no generator yet.  heap holds the dicts: heap[1] is params, the dict of the
\* generator, the others are the dicts yielded; yielded refers to them in the
\* order of the yields; pos is the index of the value each loop is at; mutated
\* are the yields whose dict the consumer has written to
NoIt == [heap |-> <<>>, yielded |-> <<>>, pos |-> <<>>, mutated |-> {}]

Setups ==
    [parameter_options : OptionLists,
     csv_results_path : BOOLEAN,
     model_save_directory : BOOLEAN,
     parameter_combination_skip_decider : Deciders,
     sort_column_name : {NoColumn, "m"},
     ascending : {TRUE},
     tracking : BOOLEAN]

\* a search without tracked experiment is one without decider and model saving
Untracked(s) ==
    /\ ~s.tracking
    /\ s.parameter_combination_skip_decider = "none"
    /\ ~s.model_save_directory

Init ==
    /\ setup \in {s \in Setups : s.tracking \/ Untracked(s)}
    /\ run_no = 1
    /\ pc = "new"
    /\ gs = NoGs
    /\ env = NoEnv
    /\ todo = <<>>
    /\ combination_idx = 0
    /\ pmc = NoPmc
    /\ futures = <<>>
    /\ told = <<>>
    /\ calls = <<>>
    /\ csv_file = NoFile
    /\ model_files = {}
    /\ result = NoResult
    /\ cache = <<>>
    /\ cache_log = <<>>
    /\ sa = NoSa
    /\ it = NoIt

RECURSIVE Product(_)
Product(ns) == IF ns = <<>> THEN 1 ELSE ns[1] * Product(Tail(ns))
RECURSIVE Sum(_)
Sum(ns) == IF ns = <<>> THEN 0 ELSE ns[1] + Sum(Tail(ns))

\* a check that lets an alternative with further keys pass
SameKeysOrMore(parameter_options_list) ==
    \A k \in 2..Len(parameter_options_list) :
        Keys(parameter_options_list[1]) \subseteq Keys(parameter_options_list[k])

\* the check of GridSearch.__init__ on the keys of the alternatives
SameKeys(parameter_options_list) ==
    \A k \in 2..Len(parameter_options_list) :
        Keys(parameter_options_list[k]) = Keys(parameter_options_list[1])

\* self.num_combinations
NumCombinations(parameter_options_list) ==
    Sum([k \in DOMAIN parameter_options_list |->
           Product([i \in DOMAIN parameter_options_list[k] |->
                      Len(parameter_options_list[k][i][2])])])

\* GridSearch.__init__
Construct(num_processes, incremental, incremental_skip_existing) ==
    /\ pc = "new"
    /\ IF SameKeys(setup.parameter_options)
       THEN /\ pc' = "constructed"
            /\ gs' = [constructed |-> TRUE,
                      parameter_options_list |-> setup.parameter_options,
                      param_names |-> Keys(setup.parameter_options[1]),
                      num_processes |-> num_processes,
                      parameter_combination_skip_decider |->
                          setup.parameter_combination_skip_decider,
                      model_save_directory |-> setup.model_save_directory,
                      name |-> GridSearchName,
                      csv_results_path |-> setup.csv_results_path,
                      incremental |-> incremental,
                      incremental_skip_existing |-> incremental_skip_existing,
                      num_combinations |-> NumCombinations(setup.parameter_options)]
       ELSE /\ pc' = "config_error"
            /\ gs' = NoGs
    /\ UNCHANGED <<setup, run_no, env, todo, combination_idx, pmc, futures, told, calls, csv_file, model_files, result, cache, cache_log, sa, it>>

\* GridSearch.run up to its loops
RunBegin(fail_stage) ==
    /\ pc = "constructed"
    /\ fail_stage = "save" => gs.model_save_directory
    /\ env' = [fail_stage |-> fail_stage, found |-> csv_file]
    /\ pmc' = NewCollection(gs.csv_results_path, setup.sort_column_name,
                            setup.ascending, gs.incremental, csv_file)
    /\ todo' = EnumerateAll(gs.parameter_options_list)
    /\ combination_idx' = 0
    /\ pc' = IF gs.num_processes = 1 THEN "sequential" ELSE "parallel"
    /\ UNCHANGED <<setup, run_no, gs, futures, told, calls, csv_file, model_files, result, cache, cache_log, sa, it>>

\* the calls of collect_result on a record
CollectCalls(params, idx) ==
    (IF setup.tracking THEN <<Call("track_values", params, idx)>> ELSE <<>>)
        \o <<Call("add_values", params, idx)>>

\* the existence check of both loops of run
SkipsExisting(params) ==
    gs.incremental_skip_existing /\ gs.incremental /\ Contains(pmc, params)

\* one iteration of the loops of the sequential branch of run
SeqStep ==
    /\ pc = "sequential"
    /\ todo # <<>>
    /\ LET params == Head(todo)
           r == EvalParams(gs.parameter_combination_skip_decider, told,
                           env.fail_stage, gs.name, combination_idx,
                           gs.model_save_directory, params)
       IN  /\ todo' = Tail(todo)
           /\ IF SkipsExisting(params)
              THEN /\ calls' = calls
                   /\ UNCHANGED <<pc, combination_idx, pmc, told, csv_file, model_files, it>>
              ELSE /\ told' = r.told
                   /\ model_files' = model_files \cup r.saved
                   /\ IF r.outcome = "failed"
                      THEN /\ pc' = "raised"
                           /\ calls' = calls \o r.calls
                           /\ UNCHANGED <<combination_idx, pmc, csv_file, it>>
                      ELSE /\ pc' = pc
                           /\ combination_idx' = combination_idx + 1
                           /\ IF r.outcome = "skipped"
                              THEN /\ calls' = calls \o r.calls
                                   /\ UNCHANGED <<pmc, csv_file, it>>
                              ELSE /\ calls' = calls \o r.calls
                                          \o CollectCalls(params, combination_idx)
                                   /\ pmc' = AddValues(pmc, r.values)
                                   /\ csv_file' = SaveCsv(pmc', csv_file)
    /\ UNCHANGED <<setup, run_no, gs, env, futures, result, cache, cache_log, sa, it>>

\* GridSearch.Result.__init__ on what run collected
MakeResult ==
    [returned |-> TRUE, df |-> pmc.df, param_names |-> gs.param_names,
     default_metric_name |-> setup.sort_column_name,
     default_higher_is_better |->
         IF setup.sort_column_name # NoColumn
         THEN (IF setup.ascending THEN "False" ELSE "True") ELSE "None"]

\* the end of the sequential branch of run
SeqReturn ==
    /\ pc = "sequential"
    /\ todo = <<>>
    /\ pc' = "returned"
    /\ result' = MakeResult
    /\ UNCHANGED <<setup, run_no, gs, env, todo, combination_idx, pmc, futures, told, calls, csv_file, model_files, cache, cache_log, sa, it>>

(***************************************************************************)
(* The parallel branch of run.  A unit is one submitted _eval_params call: *)
(* queued (waiting for a worker or running on one), done (its future holds *)
(* the outcome) or collected (run has taken the outcome from the future).  *)
(***************************************************************************)
\* a unit that is handed the number of the combination, counted from 1
UnitCountedFromOne(params, idx) ==
    [params |-> params, idx |-> idx + 1, status |-> "queued",
     outcome |-> "none", values |-> <<>>, calls |-> <<>>]

Unit(params, idx) ==
    [params |-> params, idx |-> idx, status |-> "queued",
     outcome |-> "none", values |-> <<>>, calls |-> <<>>]

\* one iteration of the submitting loops of the parallel branch of run
Submit ==
    /\ pc = "parallel"
    /\ todo # <<>>
    /\ todo' = Tail(todo)
    /\ IF SkipsExisting(Head(todo))
       THEN UNCHANGED <<combination_idx, futures, it>>
       ELSE /\ futures' = Append(futures, Unit(Head(todo), combination_idx))
            /\ combination_idx' = combination_idx + 1
    /\ UNCHANGED <<setup, run_no, pc, gs, env, pmc, told, calls, csv_file, model_files, result, cache, cache_log, sa, it>>

\* a pool that starts no unit once a unit has failed
RunningUnlessCancelled(i) ==
    /\ futures[i].status = "queued"
    /\ Cardinality({j \in 1..(i - 1) : futures[j].status = "queued"})
           < gs.num_processes
    /\ \A j \in DOMAIN futures : futures[j].outcome # "failed"

\* the units the workers of the pool are running: the pool starts the units in
\* the order of their submission, as soon as a worker is free
Running(i) ==
    /\ futures[i].status = "queued"
    /\ Cardinality({j \in 1..(i - 1) : futures[j].status = "queued"})
           < gs.num_processes

\* a decider that the workers and the orchestrator share
DeciderSharedAfterUnit(orchestrator_told, unit_told) == unit_told
\* what the orchestrator's skip decider has been told, after a unit whose
\* decider has been told unit_told: the unit has a copy of the decider, made
\* when the call was handed to a worker process
DeciderAfterUnit(orchestrator_told, unit_told) == orchestrator_told

\* a worker runs _eval_params on its own copy of the arguments, the skip decider
\* among them, and leaves the outcome in the future
WorkerFinish(i) ==
    /\ Running(i)
    /\ LET u == futures[i]
           r == EvalParams(gs.parameter_combination_skip_decider, told,
                           env.fail_stage, gs.name, u.idx,
                           gs.model_save_directory, u.params)
       IN  /\ futures' = [futures EXCEPT ![i].status = "done",
                                         ![i].outcome = r.outcome,
                                         ![i].values = r.values,
                                         ![i].calls = r.calls]
           /\ model_files' = model_files \cup r.saved
           /\ told' = DeciderAfterUnit(told, r.told)
    /\ UNCHANGED <<setup, run_no, pc, gs, env, todo, combination_idx, pmc, calls, csv_file, result, cache, cache_log, sa, it>>

\* the handles left to a draining loop that passes over a failed unit
UncollectedNotFailed ==
    {i \in DOMAIN futures : futures[i].status # "collected" /\ futures[i].outcome # "failed"}

\* the units run has yet to take the outcome of
Uncollected == {i \in DOMAIN futures : futures[i].status # "collected"}
\* the handle a loop over the futures as they complete would take: a done one
\* wherever it is in the list
NextHandleAsCompleted ==
    LET done == {i \in Uncollected : futures[i].status = "done"}
    IN  IF done = {} THEN CHOOSE i \in Uncollected : \A j \in Uncollected : i <= j
        ELSE CHOOSE i \in done : \A j \in done : j <= i

\* the handle the draining loop is at: the loop goes over futures in list order
NextHandle == CHOOSE i \in Uncollected : \A j \in Uncollected : i <= j

\* a draining loop that need not wait for the submitting loops
SubmittingEndedOrNot == TRUE
\* the submitting loops have come to their end: the draining loop follows them
SubmittingEnded == todo = <<>>

\* one iteration of the draining loop: future.result() of the next handle, which
\* blocks until the unit is done, and collect_result on it
Drain ==
    /\ pc = "parallel"
    /\ SubmittingEnded
    /\ Uncollected # {}
    /\ futures[NextHandle].status = "done"
    /\ LET u == futures[NextHandle]
       IN  IF u.outcome = "failed"
           THEN /\ pc' = "raised"
                /\ UNCHANGED <<futures, pmc, calls, csv_file, it>>
           ELSE /\ pc' = pc
                /\ futures' = [futures EXCEPT ![NextHandle].status = "collected"]
                /\ IF u.outcome = "skipped"
                   THEN UNCHANGED <<pmc, calls, csv_file, it>>
                   ELSE /\ calls' = calls \o CollectCalls(u.params, u.idx)
                        /\ pmc' = AddValues(pmc, u.values)
                        /\ csv_file' = SaveCsv(pmc', csv_file)
    /\ UNCHANGED <<setup, run_no, gs, env, todo, combination_idx, told, model_files, result, cache, cache_log, sa, it>>

\* the end of the parallel branch of run
ParReturn ==
    /\ pc = "parallel"
    /\ SubmittingEnded
    /\ Uncollected = {}
    /\ pc' = "returned"
    /\ result' = MakeResult
    /\ UNCHANGED <<setup, run_no, gs, env, todo, combination_idx, pmc, futures, told, calls, csv_file, model_files, cache, cache_log, sa, it>>

\* the caller sets up another grid search on the same paths
NewSearch ==
    /\ pc \in {"returned", "raised"}
    /\ setup.csv_results_path
    /\ \A i \in DOMAIN futures : futures[i].status \in {"done", "collected"}
    /\ run_no < MaxRuns
    /\ run_no' = run_no + 1
    /\ pc' = "new"
    /\ gs' = NoGs
    /\ env' = NoEnv
    /\ todo' = <<>>
    /\ combination_idx' = 0
    /\ pmc' = NoPmc
    /\ futures' = <<>>
    /\ told' = <<>>
    /\ calls' = <<>>
    /\ result' = NoResult
    /\ UNCHANGED <<setup, csv_file, model_files, cache, cache_log, sa, it>>

\* incremental_skip_existing has an effect only in incremental mode
Modes == {<<FALSE, FALSE>>, <<TRUE, FALSE>>, <<TRUE, TRUE>>}

Next ==
    \/ \E mode \in Modes : Construct(1, mode[1], mode[2])
    \/ \E fail_stage \in FailStages \cup {"none"} : RunBegin(fail_stage)
    \/ SeqStep
    \/ SeqReturn
    \/ NewSearch

Spec == Init /\ [][Next]_vars

(***************************************************************************)
(* The parallel grid search.  It may find the table and the model files an *)
(* earlier search left at its paths: here the ones a complete sequential   *)
(* search over the first of the alternative mappings leaves.               *)
(***************************************************************************)
RECURSIVE SequentialSearch(_, _, _, _)
\* the collection and the files a sequential run without failure ends with
SequentialSearch(s, combos, idx, st) ==
    IF combos = <<>> THEN st
    ELSE LET r == EvalParams(s.parameter_combination_skip_decider, st.told, "none",
                             GridSearchName, idx, s.model_save_directory, Head(combos))
         IN  SequentialSearch(s, Tail(combos), idx + 1,
                 [told |-> r.told,
                  pmc |-> IF r.outcome = "ok" THEN AddValues(st.pmc, r.values)
                          ELSE st.pmc,
                  saved |-> st.saved \cup r.saved])

EarlierSearch(s) ==
    SequentialSearch(s, IterParamCombinations(s.parameter_options[1]), 0,
        [told |-> <<>>,
         pmc |-> NewCollection(s.csv_results_path, s.sort_column_name,
                               s.ascending, FALSE, NoFile),
         saved |-> {}])

InitPar ==
    /\ setup \in {s \in Setups : s.tracking /\ s.sort_column_name = NoColumn}
    /\ run_no = 1
    /\ pc = "new"
    /\ gs = NoGs
    /\ env = NoEnv
    /\ todo = <<>>
    /\ combination_idx = 0
    /\ pmc = NoPmc
    /\ futures = <<>>
    /\ told = <<>>
    /\ calls = <<>>
    /\ result = NoResult
    /\ cache = <<>>
    /\ cache_log = <<>>
    /\ sa = NoSa
    /\ it = NoIt
    /\ \/ csv_file = NoFile /\ model_files = {}
       \/ /\ setup.csv_results_path
          /\ EarlierSearch(setup).pmc.df.exists
          /\ csv_file = ToCsv(EarlierSearch(setup).pmc.df)
          /\ model_files = EarlierSearch(setup).saved

\* a search that finds a table runs in incremental mode, skipping what exists
ConstructPar(num_processes) ==
    Construct(num_processes, csv_file.exists, csv_file.exists)

NextPar ==
    \/ \E num_processes \in 2..MaxProcesses : ConstructPar(num_processes)
    \/ \E fail_stage \in {"evaluate", "none"} : RunBegin(fail_stage)
    \/ Submit
    \/ \E i \in DOMAIN futures : WorkerFinish(i)
    \/ Drain
    \/ ParReturn

SpecPar == InitPar /\ [][NextPar]_vars

\* a step of the submitting loop or of a worker of the pool
PoolProgress == Submit \/ \E i \in DOMAIN futures : WorkerFinish(i)

\* The parallel grid search with the orchestrator going on with its submitting
\* loop, and the workers of the pool going on with the units submitted, whatever
\* becomes of the orchestrator.
\* The searches here persist no table, save no models and have no skip decider.
InitParFair ==
    /\ InitPar
    /\ ~setup.csv_results_path
    /\ ~setup.model_save_directory
    /\ setup.parameter_combination_skip_decider = "none"

\* the runs in which evaluating fails wherever it can
NextParFailing ==
    \/ \E num_processes \in 2..MaxProcesses : ConstructPar(num_processes)
    \/ RunBegin("evaluate")
    \/ Submit
    \/ \E i \in DOMAIN futures : WorkerFinish(i)
    \/ Drain
    \/ ParReturn

SpecParFair == InitParFair /\ [][NextParFailing]_vars /\ WF_vars(PoolProgress)

RECURSIVE SequentialLoop(_, _)
\* the loops of the sequential branch of run as a function: what they leave of
\* the collection, the file, the decider, the model files and the calls, begun
\* with st on the combinations combos, for the search gs in the environment env
SequentialLoop(st, combos) ==
    IF combos = <<>> THEN st
    ELSE LET params == Head(combos)
             r == EvalParams(gs.parameter_combination_skip_decider, st.told,
                             env.fail_stage, gs.name, st.idx,
                             gs.model_save_directory, params)
             added == AddValues(st.pmc, r.values)
             evaluated == [st EXCEPT !.told = r.told, !.saved = @ \cup r.saved,
                                     !.calls = @ \o r.calls]
         IN  IF gs.incremental_skip_existing /\ gs.incremental /\ Contains(st.pmc, params)
             THEN SequentialLoop(st, Tail(combos))
             ELSE IF r.outcome = "failed"
             THEN [evaluated EXCEPT !.raised = TRUE]
             ELSE IF r.outcome = "skipped"
             THEN SequentialLoop([evaluated EXCEPT !.idx = @ + 1], Tail(combos))
             ELSE SequentialLoop(
                      [evaluated EXCEPT !.idx = @ + 1,
                                        !.calls = @ \o CollectCalls(params, st.idx),
                                        !.pmc = added,
                                        !.file = SaveCsv(added, st.file)],
                      Tail(combos))

\* run with num_processes = 1, for the search gs, on the files found
SequentialRun ==
    SequentialLoop([pmc |-> NewCollection(gs.csv_results_path, setup.sort_column_name,
                                          setup.ascending, gs.incremental, env.found),
                    file |-> env.found, told |-> <<>>, saved |-> {}, idx |-> 0,
                    calls |-> <<>>, raised |-> FALSE],
                   EnumerateAll(gs.parameter_options_list))

\* a step of the draining loop, or the return
OrchestratorProgress == Drain \/ ParReturn

\* The parallel grid search with the orchestrator going on through run, and the
\* workers of the pool completing or failing every unit submitted.  The
\* searches here save no models, have no skip decider and list no mapping twice.
InitParLive ==
    /\ InitPar
    /\ ~setup.model_save_directory
    /\ setup.parameter_combination_skip_decider = "none"
    /\ \A i, j \in DOMAIN setup.parameter_options :
          i # j => setup.parameter_options[i] # setup.parameter_options[j]

SpecParLive ==
    InitParLive /\ [][NextPar]_vars /\ WF_vars(PoolProgress) /\ WF_vars(OrchestratorProgress)

\* the parallel searches without skip decider, to compare with the sequential
\* loops
InitParPlain ==
    /\ InitPar
    /\ setup.parameter_combination_skip_decider = "none"

SpecParPlain == InitParPlain /\ [][NextPar]_vars

(***************************************************************************)
(* ParameterCombinationEquivalenceClassValueCache: _cache is a dict from   *)
(* equivalence class representations to values.  The class of a            *)
(* combination is what a subclass makes it: here the value of a.           *)
(***************************************************************************)
EquivalenceClass(params) == Get(params, "a")

\* a set that leaves nothing but its own entry in the cache
CacheSetAlone(dict, params, value) == <<<<EquivalenceClass(params), value>>>>

\* a set that keeps the value the class already has
CacheSetDefault(dict, params, value) ==
    IF Has(dict, EquivalenceClass(params)) THEN dict
    ELSE Put(dict, EquivalenceClass(params), value)

\* _cache after set(params, value)
CacheSet(dict, params, value) == Put(dict, EquivalenceClass(params), value)
\* what get(params) returns
CacheGet(dict, params) == Get(dict, EquivalenceClass(params))

\* the combinations and the values the cache is used with
CacheParams == Range(EnumerateAll(<<OptAB, OptBA>>))
CacheValues == {IntV(1), IntV(2)}

InitCache ==
    /\ setup = CHOOSE s \in Setups : TRUE
    /\ run_no = 1
    /\ pc = "new"
    /\ gs = NoGs
    /\ env = NoEnv
    /\ todo = <<>>
    /\ combination_idx = 0
    /\ pmc = NoPmc
    /\ futures = <<>>
    /\ told = <<>>
    /\ calls = <<>>
    /\ csv_file = NoFile
    /\ model_files = {}
    /\ result = NoResult
    /\ cache = <<>>
    /\ cache_log = <<>>
    /\ sa = NoSa
    /\ it = NoIt

\* a call of set
SetCall(params, value) ==
    /\ Len(cache_log) < MaxCacheOps
    /\ cache' = CacheSet(cache, params, value)
    /\ cache_log' = Append(cache_log, [op |-> "set", params |-> params, value |-> value])
    /\ UNCHANGED <<setup, run_no, pc, gs, env, todo, combination_idx, pmc, futures, told, calls, csv_file, model_files, result, sa, it>>

\* a call of get, logged with what it returned
GetCall(params) ==
    /\ Len(cache_log) < MaxCacheOps
    /\ cache_log' = Append(cache_log, [op |-> "get", params |-> params,
                                        value |-> CacheGet(cache, params)])
    /\ UNCHANGED <<setup, run_no, pc, gs, env, todo, combination_idx, pmc, futures, told, calls, csv_file, model_files, result, cache, sa, it>>

NextCache ==
    \/ \E params \in CacheParams, value \in CacheValues : SetCall(params, value)
    \/ \E params \in CacheParams : GetCall(params)

SpecCache == InitCache /\ [][NextCache]_vars

(***************************************************************************)
(* SAHyperOpt, the annealing adapter.  The cost function _eval_params as a *)
(* function: what one call does given the cache, the collection and the    *)
(* file; calls lists the calls made on the collaborators, numbered by the  *)
(* evaluation n.  A dict kept as a value is wrapped as DictV.              *)
(***************************************************************************)
DictV(d) == [ty |-> "dict", d |-> d]

\* the call of get on the cache, with whether it found metrics
Looked(params, n, found) ==
    [op |-> "cache_get", params |-> params, idx |-> n,
     ret |-> IF found THEN "hit" ELSE "miss"]

\* _eval_params that does not store what it evaluated
SAEvalParamsNotStoring(fail_stage, collecting, collection, file, caching, dict, tracking, params, n) ==
    LET cached == IF caching THEN CacheGet(dict, params) ELSE NoneV
        lookup == IF caching THEN <<Looked(params, n, cached # NoneV)>> ELSE <<>>
        metrics == ComputeMetrics(params)
        values == Update(Put(metrics, "str(model)", StrModel(params)), params)
        added == AddValues(collection, values)
        made == <<Call("model_factory", params, n), Call("compute_metrics", params, n)>>
        track == IF tracking THEN <<Call("track_values", params, n)>> ELSE <<>>
        add == IF collecting THEN <<Call("add_values", params, n)>> ELSE <<>>
        store == IF caching THEN <<Call("cache_set", params, n)>> ELSE <<>>
    IN  IF cached # NoneV
        THEN [outcome |-> "ok", metrics |-> cached.d, calls |-> lookup,
              pmc |-> collection, file |-> file, cache |-> dict]
        ELSE IF Fails(params) /\ fail_stage \in {"build", "evaluate"}
        THEN [outcome |-> "failed", metrics |-> <<>>,
              calls |-> lookup \o (IF fail_stage = "build" THEN <<made[1]>> ELSE made),
              pmc |-> collection, file |-> file, cache |-> dict]
        ELSE [outcome |-> "ok", metrics |-> metrics,
              calls |-> lookup \o made \o track \o add \o store,
              pmc |-> IF collecting THEN added ELSE collection,
              file |-> IF collecting THEN SaveCsv(added, file) ELSE file,
              cache |-> dict]

\* _eval_params that forwards to the tracking sink once the model is built,
\* before it is evaluated
SAEvalParamsTrackingTheBuilt(fail_stage, collecting, collection, file, caching, dict, tracking, params, n) ==
    LET cached == IF caching THEN CacheGet(dict, params) ELSE NoneV
        lookup == IF caching THEN <<Looked(params, n, cached # NoneV)>> ELSE <<>>
        metrics == ComputeMetrics(params)
        values == Update(Put(metrics, "str(model)", StrModel(params)), params)
        build == <<Call("model_factory", params, n)>>
        evaluate == <<Call("compute_metrics", params, n)>>
        track == IF tracking THEN <<Call("track_values", params, n)>> ELSE <<>>
        add == IF collecting THEN <<Call("add_values", params, n)>> ELSE <<>>
        store == IF caching THEN <<Call("cache_set", params, n)>> ELSE <<>>
        added == AddValues(collection, values)
        nothing == [outcome |-> "failed", metrics |-> <<>>, calls |-> lookup,
                    pmc |-> collection, file |-> file, cache |-> dict]
    IN  IF cached # NoneV
        THEN [nothing EXCEPT !.outcome = "ok", !.metrics = cached.d]
        ELSE IF Fails(params) /\ fail_stage = "build"
        THEN [nothing EXCEPT !.calls = lookup \o build]
        ELSE IF Fails(params) /\ fail_stage = "evaluate"
        THEN [nothing EXCEPT !.calls = lookup \o build \o track \o evaluate]
        ELSE [outcome |-> "ok",
              metrics |-> metrics,
              calls |-> lookup \o build \o track \o evaluate \o add \o store,
              pmc |-> IF collecting THEN added ELSE collection,
              file |-> IF collecting THEN SaveCsv(added, file) ELSE file,
              cache |-> IF caching THEN CacheSet(dict, params, DictV(metrics)) ELSE dict]

\* SAHyperOpt._eval_params: one cost evaluation and what it leaves behind
SAEvalParams(fail_stage, collecting, collection, file, caching, dict, tracking, params, n) ==
    LET cached == IF caching THEN CacheGet(dict, params) ELSE NoneV
        lookup == IF caching THEN <<Looked(params, n, cached # NoneV)>> ELSE <<>>
        metrics == ComputeMetrics(params)
        values == Update(Put(metrics, "str(model)", StrModel(params)), params)
        build == <<Call("model_factory", params, n)>>
        evaluate == <<Call("compute_metrics", params, n)>>
        track == IF tracking THEN <<Call("track_values", params, n)>> ELSE <<>>
        add == IF collecting THEN <<Call("add_values", params, n)>> ELSE <<>>
        store == IF caching THEN <<Call("cache_set", params, n)>> ELSE <<>>
        added == AddValues(collection, values)
        nothing == [outcome |-> "failed", metrics |-> <<>>, calls |-> lookup,
                    pmc |-> collection, file |-> file, cache |-> dict]
    IN  IF cached # NoneV
        THEN [nothing EXCEPT !.outcome = "ok", !.metrics = cached.d]
        ELSE IF Fails(params) /\ fail_stage = "build"
        THEN [nothing EXCEPT !.calls = lookup \o build]
        ELSE IF Fails(params) /\ fail_stage = "evaluate"
        THEN [nothing EXCEPT !.calls = lookup \o build \o evaluate]
        ELSE [outcome |-> "ok",
              metrics |-> metrics,
              calls |-> lookup \o build \o evaluate \o track \o add \o store,
              pmc |-> IF collecting THEN added ELSE collection,
              file |-> IF collecting THEN SaveCsv(added, file) ELSE file,
              cache |-> IF caching THEN CacheSet(dict, params, DictV(metrics)) ELSE dict]

\* a _compute_metric that negates when the metric is to be minimised
ComputeMetricNegatingTheMinimised(metric_to_optimise, minimise_metric, metrics) ==
    LET metric_value == Get(metrics, metric_to_optimise).n
    IN  IF minimise_metric THEN 0 - metric_value ELSE metric_value

\* SAHyperOpt._compute_metric on the metrics _eval_params returned
ComputeMetric(metric_to_optimise, minimise_metric, metrics) ==
    LET metric_value == Get(metrics, metric_to_optimise).n
    IN  IF ~minimise_metric THEN 0 - metric_value ELSE metric_value

\* State.get_state_representation: the state's params
GetStateRepresentation(state_params) == state_params
\* apply_state_representation that drops the keys results shares with the
\* representation
ApplyStateRepresentationDroppingShared(results, representation) ==
    SelectSeq(results, LAMBDA e : ~Has(representation, e[1]))
        \o SelectSeq(representation, LAMBDA e : ~Has(results, e[1]))
\* apply_state_representation that keeps the values results already holds
ApplyStateRepresentationKeepingEarlier(results, representation) ==
    Update(representation, results)
\* State.apply_state_representation: results after the update
ApplyStateRepresentation(results, representation) == Update(results, representation)
\* ParameterChangeOperator.apply_state_change: the state's params after the update
ApplyStateChange(state_params, params) == Update(state_params, params)
\* a cost_delta that evaluates the proposal alone
CostDeltaParamsOfProposal(state_params, params) == params
\* the model_params that cost_delta evaluates
CostDeltaParams(state_params, params) == Update(state_params, params)
\* a cost_delta that updates the state's own dict
CostDeltaOnStateParams(state_params, params) == Update(state_params, params)
\* the state's params after cost_delta, which updates a copy of them
CostDeltaStateParams(state_params, params) == state_params
\* State.__init__: self.params = dict(params)
StateParams(params) == params
\* an adapter whose initial_parameters is the dict the state writes to
InitialParametersShared(initial_parameters, state_params) == state_params
\* the adapter's initial_parameters once the state's params are state_params:
\* the state writes to the copy it made in State.__init__
InitialParameters(initial_parameters, state_params) == initial_parameters
\* State.compute_cost_value: the parameters it has evaluated
ComputeCostValueParams(state_params) == state_params
\* the record of a call of compute_cost_value or cost_delta
Asking(by, state_params, cost, proposal, evaluated, ev, value, applied) ==
    [by |-> by, before |-> state_params, cost |-> cost, proposal |-> proposal,
     evaluated |-> evaluated, outcome |-> ev.outcome, metrics |-> ev.metrics,
     value |-> value, applied |-> applied]

(***************************************************************************)
(* The annealing adapter as a state machine.  setup holds the constructor  *)
(* arguments, pmc the collection, cache the equivalence-class cache, sa    *)
(* the State object of the run under way and the results of run.  The      *)
(* engine (SimulatedAnnealing, SAState, SAOperator) builds the state,      *)
(* proposes a change per step, asks for the cost delta, accepts or rejects *)
(* it, hands the representation of an accepted state back to the state     *)
(* object, and does so once more for the final state.                      *)
(***************************************************************************)
SASetups ==
    [minimise_metric : BOOLEAN,
     metric_to_optimise : {"m"},
     initial_parameters : {<< <<"a", I1>>, <<"b", Sx>> >>},
     collect_data_frame : BOOLEAN,
     csv_results_path : BOOLEAN,
     caching : BOOLEAN,
     tracking : BOOLEAN]

\* what _choose_changed_model_parameters of the operators may return
NoChange == <<>>
ChangedModelParameters == {NoChange, << <<"a", I2>> >>, << <<"b", Sy>> >>, << <<"b", Sx>> >>}

\* ParameterChangeOperator.choose_params
ChooseParams(changed) ==
    IF changed = NoChange THEN [chosen |-> FALSE] ELSE [chosen |-> TRUE, params |-> changed]

\* an adapter with tracked experiment is one with cache and table path; a
\* table path makes the adapter collect whatever collect_data_frame says
SAUntracked(s) == ~s.tracking /\ ~(s.collect_data_frame /\ s.csv_results_path)
SATracked(s) == s.tracking /\ s.caching /\ s.csv_results_path /\ ~s.collect_data_frame

InitSA ==
    /\ setup \in {s \in SASetups : SAUntracked(s) \/ SATracked(s)}
    /\ run_no = 1
    /\ pc = "new"
    /\ gs = NoGs
    /\ env = NoEnv
    /\ todo = <<>>
    /\ combination_idx = 0
    /\ pmc = NoPmc
    /\ futures = <<>>
    /\ told = <<>>
    /\ calls = <<>>
    /\ csv_file = NoFile
    /\ model_files = {}
    /\ result = NoResult
    /\ cache = <<>>
    /\ cache_log = <<>>
    /\ sa = NoSa
    /\ it = NoIt

\* whether the adapter collects a table
Collecting(s) == s.collect_data_frame \/ s.csv_results_path

\* SAHyperOpt.__init__
SAConstruct ==
    /\ pc = "new"
    /\ pc' = "constructed"
    /\ pmc' = IF Collecting(setup)
              THEN NewCollection(setup.csv_results_path, NoColumn, TRUE, FALSE, csv_file)
              ELSE NoPmc
    /\ sa' = [sa EXCEPT !.initial_parameters = setup.initial_parameters]
    /\ UNCHANGED <<setup, run_no, gs, env, todo, combination_idx, futures, told, calls, csv_file, model_files, result, cache, cache_log, it>>

\* one cost evaluation of the adapter, on the state of the adapter
SACost(params) ==
    SAEvalParams(env.fail_stage, Collecting(setup), pmc, csv_file, setup.caching,
                 cache, setup.tracking, params, sa.evals + 1)

\* what every cost evaluation leaves behind, failed or not
SAEvaluated(ev) ==
    /\ calls' = calls \o ev.calls
    /\ pmc' = ev.pmc
    /\ csv_file' = ev.file
    /\ cache' = ev.cache

\* SAHyperOpt.run(max_steps = MaxSteps, duration) up to the construction of the
\* State by the engine, which computes the cost of the initial parameters
SARunBegin(fail_stage) ==
    /\ pc \in {"constructed", "returned", "raised"}
    /\ pc = "constructed" \/ run_no < MaxRuns
    /\ sa.evals < MaxEvaluations
    /\ run_no' = IF pc = "constructed" THEN run_no ELSE run_no + 1
    /\ env' = [env EXCEPT !.fail_stage = fail_stage]
    /\ result' = NoResult
    /\ LET params == StateParams(sa.initial_parameters)
           evaluated == ComputeCostValueParams(params)
           ev == SAEvalParams(fail_stage, Collecting(setup), pmc, csv_file, setup.caching,
                              cache, setup.tracking, evaluated, sa.evals + 1)
           cost == IF ev.outcome = "failed" THEN 0
                   ELSE ComputeMetric(setup.metric_to_optimise, setup.minimise_metric, ev.metrics)
           last == Asking("compute_cost_value", params, 0, <<>>, evaluated, ev, cost, FALSE)
       IN  /\ SAEvaluated(ev)
           /\ IF ev.outcome = "failed"
              THEN /\ pc' = "raised"
                   /\ sa' = [sa EXCEPT !.started = TRUE, !.params = params, !.results = <<>>,
                                       !.steps = 0, !.max_steps = MaxSteps,
                                       !.evals = sa.evals + 1, !.last = last]
              ELSE /\ pc' = "annealing"
                   /\ sa' = [started |-> TRUE, params |-> params, cost |-> cost,
                             results |-> <<>>, steps |-> 0, max_steps |-> MaxSteps,
                             evals |-> sa.evals + 1, last |-> last,
                             initial_parameters |-> InitialParameters(sa.initial_parameters, params)]
    /\ UNCHANGED <<setup, gs, todo, combination_idx, futures, told, model_files, cache_log, it>>

\* one step in which the operator has no change to propose
SAStepNoChange ==
    /\ pc = "annealing"
    /\ sa.steps < sa.max_steps
    /\ ~ChooseParams(NoChange).chosen
    /\ sa' = [sa EXCEPT !.steps = sa.steps + 1]
    /\ UNCHANGED <<setup, run_no, pc, gs, env, todo, combination_idx, pmc, futures, told, calls, csv_file, model_files, result, cache, cache_log, it>>

\* one step: the operator proposes changed, cost_delta evaluates the changed
\* parameters, and the engine accepts an improvement and may accept (accept)
\* a deterioration; an accepted change is applied and the representation of
\* the new state handed to apply_state_representation
SAStep(changed, accept) ==
    /\ pc = "annealing"
    /\ sa.steps < sa.max_steps
    /\ ChooseParams(changed).chosen
    /\ sa.evals < MaxEvaluations
    /\ LET params == ChooseParams(changed).params
           model_params == CostDeltaParams(sa.params, params)
           ev == SACost(model_params)
           delta == IF ev.outcome = "failed" THEN 0
                    ELSE ComputeMetric(setup.metric_to_optimise, setup.minimise_metric,
                                       ev.metrics) - sa.cost
           state_params == CostDeltaStateParams(sa.params, params)
           new_params == ApplyStateChange(state_params, params)
           last == Asking("cost_delta", sa.params, sa.cost, params, model_params, ev, delta,
                          ev.outcome # "failed" /\ accept)
       IN  /\ SAEvaluated(ev)
           /\ IF ev.outcome = "failed"
              THEN /\ pc' = "raised"
                   /\ sa' = [sa EXCEPT !.evals = sa.evals + 1, !.params = state_params,
                                       !.last = last,
                                       !.initial_parameters = InitialParameters(@, state_params)]
              ELSE /\ pc' = pc
                   /\ accept \/ delta > 0
                   /\ sa' = IF accept
                            THEN [sa EXCEPT !.steps = sa.steps + 1,
                                            !.evals = sa.evals + 1,
                                            !.params = new_params,
                                            !.cost = sa.cost + delta,
                                            !.results = ApplyStateRepresentation(
                                                sa.results, GetStateRepresentation(new_params)),
                                            !.last = last,
                                            !.initial_parameters = InitialParameters(@, new_params)]
                            ELSE [sa EXCEPT !.steps = sa.steps + 1, !.evals = sa.evals + 1,
                                            !.params = state_params, !.last = last,
                                            !.initial_parameters = InitialParameters(@, state_params)]
    /\ UNCHANGED <<setup, run_no, gs, env, todo, combination_idx, futures, told, model_files, result, cache_log, it>>

\* the step budget is used up (exhausted) or the duration has passed: the
\* engine hands the final state's representation to apply_state_representation
\* and run returns results
SAReturn ==
    /\ pc = "annealing"
    /\ pc' = "returned"
    /\ LET results == ApplyStateRepresentation(sa.results, GetStateRepresentation(sa.params))
       IN  /\ sa' = [sa EXCEPT !.results = results]
           /\ result' = [returned |-> TRUE, results |-> results,
                         exhausted |-> sa.steps = sa.max_steps]
    /\ UNCHANGED <<setup, run_no, gs, env, todo, combination_idx, pmc, futures, told, calls, csv_file, model_files, cache, cache_log, it>>

NextSA ==
    \/ SAConstruct
    \/ \E fail_stage \in {"none", "build", "evaluate"} : SARunBegin(fail_stage)
    \/ SAStepNoChange
    \/ \E changed \in ChangedModelParameters, accept \in BOOLEAN : SAStep(changed, accept)
    \/ SAReturn

SpecSA == InitSA /\ [][NextSA]_vars

(***************************************************************************)
(* ParametersMetricsCollection on its own: constructed on a table path     *)
(* that may hold a file, fed records with add_values, asked with contains, *)
(* and constructed again on the same path.  setup holds the constructor    *)
(* arguments, calls the records added, each with the number of the         *)
(* construction it was added after, result the last answer of contains.    *)
(***************************************************************************)
\* the files found at the table path: none, one written without sort column,
\* one with an empty cell
PmcFiles ==
    {NoFile,
     [exists |-> TRUE, cols |-> <<"a", "m">>, rows |-> << <<<<"1">>, <<"2">>>>, <<<<"2">>, <<"1">>>> >>],
     [exists |-> TRUE, cols |-> <<"m", "a">>, rows |-> << <<<<"1">>, <<"1">>>>, <<<<"2">>, <<>>>> >>]}

PmcSetups ==
    [csv_path : BOOLEAN,
     sort_column_name : {NoColumn, "m"},
     ascending : BOOLEAN,
     incremental : BOOLEAN,
     file : PmcFiles]

\* arguments without effect take one value: ascending without sort column,
\* incremental and the file without table path
PmcDistinct(s) ==
    /\ s.sort_column_name = NoColumn => s.ascending
    /\ ~s.csv_path => ~s.incremental /\ s.file = NoFile

\* the records given to add_values
PmcRecords ==
    {<< <<"m", IntV(2)>>, <<"a", I1>> >>,
     << <<"a", I2>>, <<"m", IntV(1)>>, <<"b", Sx>> >>,
     << <<"a", FloatV(1)>>, <<"str(model)", Sx>> >>}

\* the records given to contains
PmcQueries ==
    {<< <<"a", I1>> >>,
     << <<"a", FloatV(1)>> >>,
     << <<"a", StrV(<<"1">>)>>, <<"m", IntV(2)>> >>,
     << <<"a", I2>>, <<"m", IntV(2)>> >>,
     << <<"str(model)", Sx>> >>}

InitPmc ==
    /\ setup \in {s \in PmcSetups : PmcDistinct(s)}
    /\ run_no = 1
    /\ pc = "new"
    /\ gs = NoGs
    /\ env = NoEnv
    /\ todo = <<>>
    /\ combination_idx = 0
    /\ pmc = NoPmc
    /\ futures = <<>>
    /\ told = <<>>
    /\ calls = <<>>
    /\ csv_file = setup.file
    /\ model_files = {}
    /\ result = NoResult
    /\ cache = <<>>
    /\ cache_log = <<>>
    /\ sa = NoSa
    /\ it = NoIt

\* ParametersMetricsCollection.__init__, the first time and again on the file
\* the collection before it left
PmcConstruct ==
    /\ pc = "new" \/ run_no < MaxRuns
    /\ run_no' = IF pc = "new" THEN run_no ELSE run_no + 1
    /\ pc' = "constructed"
    /\ pmc' = NewCollection(setup.csv_path, setup.sort_column_name, setup.ascending,
                            setup.incremental, csv_file)
    /\ result' = NoResult
    /\ UNCHANGED <<setup, gs, env, todo, combination_idx, futures, told, calls, csv_file, model_files, cache, cache_log, sa, it>>

\* ParametersMetricsCollection.add_values
PmcAddValues(values) ==
    /\ pc = "constructed"
    /\ Len(calls) < MaxAdds
    /\ pmc' = AddValues(pmc, values)
    /\ csv_file' = SaveCsv(pmc', csv_file)
    /\ calls' = Append(calls, Call("add_values", values, run_no))
    /\ result' = NoResult
    /\ UNCHANGED <<setup, run_no, pc, gs, env, todo, combination_idx, futures, told, model_files, cache, cache_log, sa, it>>

\* ParametersMetricsCollection.contains, with what it returned
PmcContains(values) ==
    /\ pc = "constructed"
    /\ result' = [returned |-> TRUE, values |-> values,
                  ret |-> IF Contains(pmc, values) THEN "True" ELSE "None"]
    /\ UNCHANGED <<setup, run_no, pc, gs, env, todo, combination_idx, pmc, futures, told, calls, csv_file, model_files, cache, cache_log, sa, it>>

NextPmc ==
    \/ PmcConstruct
    \/ \E values \in PmcRecords : PmcAddValues(values)
    \/ \E values \in PmcQueries : PmcContains(values)

SpecPmc == InitPmc /\ [][NextPmc]_vars

(***************************************************************************)
(* GridSearch.Result.get_best_params, asked of the result of a sequential  *)
(* search.  An argument left out is None: NoColumn for the metric name,    *)
(* "None" for the direction.  result then holds the arguments and the      *)
(* answer next to the fields of the Result.                                *)
(***************************************************************************)
\* a call that raised
Raised(error, message) == [outcome |-> error, message |-> message]

\* get_best_params taking the parameters from the last row of the sorted frame
GetBestParamsOfLastRow(res, metric_name, higher_is_better) ==
    LET name == IF metric_name = NoColumn THEN res.default_metric_name ELSE metric_name
        higher == IF higher_is_better = "None" THEN res.default_higher_is_better
                  ELSE higher_is_better
        df == SortValues(res.df.rows, IndexOf(res.df.cols, name), higher # "True")
    IN  IF name = NoColumn THEN Raised("ValueError", "metric_name must be specified")
        ELSE IF higher = "None" THEN Raised("ValueError", "higher_is_better must be specified")
        ELSE IF ~res.df.exists THEN Raised("AttributeError", "sort_values")
        ELSE IF name \notin Range(res.df.cols) THEN Raised("KeyError", name)
        ELSE [outcome |-> "ok", metric_name |-> name,
              metric_value |-> df[1][IndexOf(res.df.cols, name)],
              params |-> {<<param, df[Len(df)][IndexOf(res.df.cols, param)]>> :
                            param \in res.param_names}]

\* a check of the direction that always takes the default
GetBestParamsWithDefaultDirection(res, metric_name, higher_is_better) ==
    LET name == IF metric_name = NoColumn THEN res.default_metric_name ELSE metric_name
        higher == res.default_higher_is_better
        df == SortValues(res.df.rows, IndexOf(res.df.cols, name), higher # "True")
    IN  IF name = NoColumn THEN Raised("ValueError", "metric_name must be specified")
        ELSE IF higher = "None" THEN Raised("ValueError", "higher_is_better must be specified")
        ELSE IF ~res.df.exists THEN Raised("AttributeError", "sort_values")
        ELSE IF name \notin Range(res.df.cols) THEN Raised("KeyError", name)
        ELSE [outcome |-> "ok", metric_name |-> name,
              metric_value |-> df[1][IndexOf(res.df.cols, name)],
              params |-> {<<param, df[1][IndexOf(res.df.cols, param)]>> :
                            param \in res.param_names}]

\* GridSearch.Result.get_best_params
GetBestParams(res, metric_name, higher_is_better) ==
    LET name == IF metric_name = NoColumn THEN res.default_metric_name ELSE metric_name
        higher == IF higher_is_better = "None" THEN res.default_higher_is_better
                  ELSE higher_is_better
        df == SortValues(res.df.rows, IndexOf(res.df.cols, name), higher # "True")
    IN  IF name = NoColumn THEN Raised("ValueError", "metric_name must be specified")
        ELSE IF higher = "None" THEN Raised("ValueError", "higher_is_better must be specified")
        ELSE IF ~res.df.exists THEN Raised("AttributeError", "sort_values")
        ELSE IF name \notin Range(res.df.cols) THEN Raised("KeyError", name)
        ELSE [outcome |-> "ok", metric_name |-> name,
              metric_value |-> df[1][IndexOf(res.df.cols, name)],
              params |-> {<<param, df[1][IndexOf(res.df.cols, param)]>> :
                            param \in res.param_names}]

\* options of which the skip decider admits no combination, and options that
\* give no combination: a parameter without values
OptAY == << <<"a", <<I1, I2>> >>, <<"b", <<Sy>> >> >>
OptNothing == << <<"a", <<>> >>, <<"b", <<Sx>> >> >>

\* the searches asked: sequential, without table path, model saving and tracking
BestSetups ==
    [parameter_options : {<<OptAB>>, <<OptBA>>, <<OptA>>, <<OptAY>>, <<OptNothing>>},
     csv_results_path : {FALSE},
     model_save_directory : {FALSE},
     parameter_combination_skip_decider : {"none", "inadmissible"},
     sort_column_name : {NoColumn, "m"},
     ascending : BOOLEAN,
     tracking : {FALSE}]

InitBest ==
    /\ setup \in {s \in BestSetups : s.sort_column_name = NoColumn => s.ascending}
    /\ run_no = 1
    /\ pc = "new"
    /\ gs = NoGs
    /\ env = NoEnv
    /\ todo = <<>>
    /\ combination_idx = 0
    /\ pmc = NoPmc
    /\ futures = <<>>
    /\ told = <<>>
    /\ calls = <<>>
    /\ csv_file = NoFile
    /\ model_files = {}
    /\ result = NoResult
    /\ cache = <<>>
    /\ cache_log = <<>>
    /\ sa = NoSa
    /\ it = NoIt

\* the metric names asked for: none, the metric, a name that is no column
MetricNames == {NoColumn, "m", "n"}

\* a call of get_best_params on the Result that run returned
GetBest(metric_name, higher_is_better) ==
    /\ pc = "returned"
    /\ result' = [returned |-> TRUE, df |-> result.df, param_names |-> result.param_names,
                  default_metric_name |-> result.default_metric_name,
                  default_higher_is_better |-> result.default_higher_is_better,
                  metric_name |-> metric_name, higher_is_better |-> higher_is_better,
                  best |-> GetBestParams(result, metric_name, higher_is_better)]
    /\ UNCHANGED <<setup, run_no, pc, gs, env, todo, combination_idx, pmc, futures, told, calls, csv_file, model_files, cache, cache_log, sa, it>>

NextBest ==
    \/ Construct(1, FALSE, FALSE)
    \/ RunBegin("none")
    \/ SeqStep
    \/ SeqReturn
    \/ \E metric_name \in MetricNames, higher_is_better \in {"None", "True", "False"} :
          GetBest(metric_name, higher_is_better)

SpecBest == InitBest /\ [][NextBest]_vars

(***************************************************************************)
(* iter_param_combinations as a generator: every next runs the loops of    *)
(* _iter_recursive_param_combinations up to the next yield.  The consumer  *)
(* keeps the dicts yielded and may write to them.                          *)
(***************************************************************************)
\* the names the parameters are declared with, in the order of declaration
ParamNames == <<"b", "a", "c", "d">>
ValueLists == {<<>>, <<I1>>, <<I2, I1>>, <<Sx, Sx>>}
\* hyper_param_values: the first n names, each with a list of values
HyperParamValues ==
    UNION {{[i \in 1..n |-> <<ParamNames[i], vs[i]>>] : vs \in [1..n -> ValueLists]} :
              n \in 0..MaxParams}

\* the loops at their first values, if each has one
IterFirst(pairs) ==
    IF \A i \in DOMAIN pairs : pairs[i][2] # <<>>
    THEN [more |-> TRUE, from |-> 1, pos |-> [i \in DOMAIN pairs |-> 1]]
    ELSE [more |-> FALSE]

\* loops that go on where they were instead of starting again
IterAdvanceWithoutRestart(pairs, pos) ==
    LET going == {l \in DOMAIN pairs : pos[l] < Len(pairs[l][2])}
        l == CHOOSE l \in going : \A q \in going : q <= l
    IN  IF going = {} THEN [more |-> FALSE]
        ELSE [more |-> TRUE, from |-> l,
              pos |-> [i \in DOMAIN pairs |-> IF i = l THEN pos[i] + 1 ELSE pos[i]]]

\* after a yield: the innermost loop that has a next value goes on to it, and
\* the loops inside it start again
IterAdvance(pairs, pos) ==
    LET going == {l \in DOMAIN pairs : pos[l] < Len(pairs[l][2])}
        l == CHOOSE l \in going : \A q \in going : q <= l
    IN  IF going = {} THEN [more |-> FALSE]
        ELSE [more |-> TRUE, from |-> l,
              pos |-> [i \in DOMAIN pairs |->
                          IF i < l THEN pos[i] ELSE IF i = l THEN pos[i] + 1 ELSE 1]]

RECURSIVE Assigned(_, _, _, _)
\* params[param_name] = paramValue in the loops from loop i inwards
Assigned(params, pairs, pos, i) ==
    IF i > Len(pairs) THEN params
    ELSE Assigned(Put(params, pairs[i][1], pairs[i][2][pos[i]]), pairs, pos, i + 1)

\* a yield of params itself
YieldedItself(heap) == [heap |-> heap, ref |-> 1]
\* yield dict(params): a new dict with the entries of params
Yielded(heap) == [heap |-> Append(heap, heap[1]), ref |-> Len(heap) + 1]

InitIter ==
    /\ setup \in HyperParamValues
    /\ run_no = 1
    /\ pc = "new"
    /\ gs = NoGs
    /\ env = NoEnv
    /\ todo = <<>>
    /\ combination_idx = 0
    /\ pmc = NoPmc
    /\ futures = <<>>
    /\ told = <<>>
    /\ calls = <<>>
    /\ csv_file = NoFile
    /\ model_files = {}
    /\ result = NoResult
    /\ cache = <<>>
    /\ cache_log = <<>>
    /\ sa = NoSa
    /\ it = NoIt

\* iter_param_combinations(hyper_param_values): the generator, not yet run
IterCreate ==
    /\ pc = "new"
    /\ pc' = "created"
    /\ it' = [NoIt EXCEPT !.heap = << <<>> >>]
    /\ UNCHANGED <<setup, run_no, gs, env, todo, combination_idx, pmc, futures, told, calls, csv_file, model_files, result, cache, cache_log, sa>>

\* next on the generator: the next yield, or its end
IterNext ==
    /\ pc \in {"created", "yielded"}
    /\ LET step == IF pc = "created" THEN IterFirst(setup) ELSE IterAdvance(setup, it.pos)
       IN  IF step.more
           THEN LET params == Assigned(it.heap[1], setup, step.pos, step.from)
                    y == Yielded([it.heap EXCEPT ![1] = params])
                IN  /\ pc' = "yielded"
                    /\ it' = [it EXCEPT !.heap = y.heap, !.pos = step.pos,
                                        !.yielded = Append(it.yielded, y.ref)]
           ELSE /\ pc' = "exhausted"
                /\ it' = it
    /\ UNCHANGED <<setup, run_no, gs, env, todo, combination_idx, pmc, futures, told, calls, csv_file, model_files, result, cache, cache_log, sa>>

\* the consumer writes to the dict of yield k
IterMutate(k) ==
    /\ pc \in {"yielded", "exhausted"}
    /\ k \in DOMAIN it.yielded
    /\ k \notin it.mutated
    /\ it' = [it EXCEPT !.heap[it.yielded[k]] = Put(@, ParamNames[1], S1),
                        !.mutated = @ \cup {k}]
    /\ UNCHANGED <<setup, run_no, pc, gs, env, todo, combination_idx, pmc, futures, told, calls, csv_file, model_files, result, cache, cache_log, sa>>

NextIter ==
    \/ IterCreate
    \/ IterNext
    \/ \E k \in 1..(2 ^ MaxParams) : IterMutate(k)

SpecIter == InitIter /\ [][NextIter]_vars

(***************************************************************************)
(* The option generators.  An options generator is a record: one backed by *)
(* options holds the dict self.options, a product holds its two            *)
(* generators.  An Option is [key, value].                                 *)
(***************************************************************************)
Option(key, value) == [key |-> key, value |-> value]

\* OptionsGeneratorBase.__init__: the dict of the options by key; o is the
\* iterable of keys, or the items of the dict, as pairs of key and value
OptionsDict(o) == Update(<<>>, [i \in DOMAIN o |-> <<o[i][1], Option(o[i][1], o[i][2])>>])
\* self.options.values()
Values(dict) == [i \in DOMAIN dict |-> dict[i][2]]

OptionsAllOf(o) == [kind |-> "AllOf", options |-> OptionsDict(o)]
OptionsOneOf(o) == [kind |-> "OneOf", options |-> OptionsDict(o)]
OptionsMinMaxOf(o, n_min, n_max) ==
    [kind |-> "MinMaxOf", options |-> OptionsDict(o), n_min |-> n_min, n_max |-> n_max]
OptionsOneOrNoneOf(o) == OptionsMinMaxOf(o, 0, 1)
OptionsNOf(o, n) == OptionsMinMaxOf(o, n, n)
OptionsSubsets(o) == [kind |-> "Subsets", options |-> OptionsDict(o)]
\* OptionsProduct.__init__, and OptionsGenerator.times
OptionsProduct(o1, o2) == [kind |-> "Product", o1 |-> o1, o2 |-> o2]
Times(self, other) == OptionsProduct(self, other)

RECURSIVE Combinations(_, _)
\* itertools.combinations(pool, r): the r-length subsequences of pool, in
\* lexicographic order of the positions
Combinations(pool, r) ==
    IF r = 0 THEN << <<>> >>
    ELSE IF Len(pool) < r THEN <<>>
    ELSE LET with == Combinations(Tail(pool), r - 1)
         IN  [i \in DOMAIN with |-> <<Head(pool)>> \o with[i]]
               \o Combinations(Tail(pool), r)

\* range(a, b)
RangeOf(a, b) == [i \in 1..(IF b > a THEN b - a ELSE 0) |-> a + i - 1]

\* a chain that leaves out the empty subset
IterSubsetsNonEmpty(s) ==
    Concat([i \in DOMAIN RangeOf(1, Len(s) + 1) |-> Combinations(s, RangeOf(1, Len(s) + 1)[i])])

\* iter_subsets: chain.from_iterable(combinations(s, r) for r in range(len(s) + 1))
IterSubsets(s) ==
    Concat([i \in DOMAIN RangeOf(0, Len(s) + 1) |-> Combinations(s, RangeOf(0, Len(s) + 1)[i])])

\* a loop over the sizes that stops before n_max
MinMaxOfOptionsBelowMax(options, n_min, n_max) ==
    LET sizes == RangeOf(n_min, n_max)
    IN  Concat([i \in DOMAIN sizes |-> Combinations(Values(options), sizes[i])])

\* OptionsMinMaxOf.iter_options: the lists yielded, in order
MinMaxOfOptions(options, n_min, n_max) ==
    LET sizes == RangeOf(n_min, n_max + 1)
    IN  Concat([i \in DOMAIN sizes |-> Combinations(Values(options), sizes[i])])

\* the lists that iter_options of a generator backed by options yields, in order
LeafOptions(g) ==
    CASE g.kind = "AllOf" -> <<Values(g.options)>>
      [] g.kind = "OneOf" -> [i \in DOMAIN g.options |-> <<Values(g.options)[i]>>]
      [] g.kind = "MinMaxOf" -> MinMaxOfOptions(g.options, g.n_min, g.n_max)
      [] g.kind = "Subsets" -> IterSubsets(Values(g.options))

\* an iterator object of iter_options: on a generator backed by options, the
\* position in its loop; on a product, the iterators i1 and i2 of its two
\* loops (references into the heap, 0 before the loop began) and the r1 at hand
NewIterator(g) == [gen |-> g, pos |-> 0, i1 |-> 0, i2 |-> 0, r1 |-> <<>>, done |-> FALSE]

\* an iter_options that hands out the iterator it made before
IterOptionsResuming(heap, g) ==
    IF \E r \in DOMAIN heap : heap[r].gen = g
    THEN [heap |-> heap, ref |-> CHOOSE r \in DOMAIN heap : heap[r].gen = g]
    ELSE [heap |-> Append(heap, NewIterator(g)), ref |-> Len(heap) + 1]

\* a call of iter_options: a new generator object, nothing of it run yet
IterOptions(heap, g) == [heap |-> Append(heap, NewIterator(g)), ref |-> Len(heap) + 1]

Stop(heap) == [heap |-> heap, stop |-> TRUE, value |-> <<>>]
Yield(heap, value) == [heap |-> heap, stop |-> FALSE, value |-> value]

\* a product that loops over o2 and, for each of its lists, over o1
LoopsInnerFirst(g) == [outer |-> g.o2, inner |-> g.o1]
\* OptionsProduct.iter_options: for r1 in self.o1.iter_options(): for r2 in
\* self.o2.iter_options()
Loops(g) == [outer |-> g.o1, inner |-> g.o2]

\* a yield that repeats r1 after r2
JoinedAround(r1, r2) == r1 \o r2 \o r1
\* yield r1 + r2
Joined(r1, r2) == r1 \o r2

RECURSIVE NextOn(_, _)
\* next() on the iterator object at ref: the heap after it, and the list yielded
\* or StopIteration.  OptionsProduct.iter_options runs o2.iter_options() anew
\* for each r1 of o1.iter_options() and yields r1 + r2
NextOn(heap, ref) ==
    LET o == heap[ref]
    IN  IF o.gen.kind # "Product"
        THEN LET options == LeafOptions(o.gen)
             IN  IF o.pos < Len(options)
                 THEN Yield([heap EXCEPT ![ref].pos = @ + 1], options[o.pos + 1])
                 ELSE Stop(heap)
        ELSE IF o.done THEN Stop(heap)
        ELSE IF o.i1 = 0
        THEN LET c == IterOptions(heap, Loops(o.gen).outer)
             IN  NextOn([c.heap EXCEPT ![ref].i1 = c.ref], ref)
        ELSE IF o.i2 = 0
        THEN LET n1 == NextOn(heap, o.i1)
             IN  IF n1.stop
                 THEN Stop([n1.heap EXCEPT ![ref].done = TRUE])
                 ELSE LET c == IterOptions(n1.heap, Loops(o.gen).inner)
                      IN  NextOn([c.heap EXCEPT ![ref].r1 = n1.value, ![ref].i2 = c.ref], ref)
        ELSE LET n2 == NextOn(heap, o.i2)
             IN  IF n2.stop
                 THEN NextOn([n2.heap EXCEPT ![ref].i2 = 0], ref)
                 ELSE Yield(n2.heap, Joined(o.r1, n2.value))

\* the arguments o: iterables of keys, with a key twice, and a dict
OptionKeys == <<"p", "q", "r", "s", "t">>
OfKeys(keys) == [i \in DOMAIN keys |-> <<keys[i], NoneV>>]
OptionInputs ==
    {OfKeys(SubSeq(OptionKeys, 1, n)) : n \in 0..MaxOptions}
        \cup {OfKeys(<<"q", "p">>), OfKeys(<<"p", "q", "p">>), <<<<"p", I1>>, <<"q", I2>>>>}

LeafGenerators ==
    {OptionsAllOf(o) : o \in OptionInputs}
        \cup {OptionsOneOf(o) : o \in OptionInputs}
        \cup {OptionsSubsets(o) : o \in OptionInputs}
        \cup {OptionsMinMaxOf(o, n_min, n_max) :
                o \in OptionInputs, n_min \in 0..MaxOptions, n_max \in 0..MaxOptions}
        \cup {OptionsOneOrNoneOf(o) : o \in OptionInputs}
        \cup {OptionsNOf(o, n) : o \in OptionInputs, n \in 0..MaxOptions}

\* the generators that the products are made of
Factors ==
    {OptionsOneOf(OfKeys(<<"p", "q">>)), OptionsOneOrNoneOf(OfKeys(<<"r">>)),
     OptionsAllOf(OfKeys(<<"s", "t">>)), OptionsSubsets(OfKeys(<<"q">>)),
     OptionsOneOf(<<>>)}
\* the generators that the products of three are made of
NestedFactors ==
    {OptionsOneOf(OfKeys(<<"p", "q">>)), OptionsOneOrNoneOf(OfKeys(<<"r">>)),
     OptionsAllOf(OfKeys(<<"s", "t">>)), OptionsOneOf(<<>>)}

\* the generators at hand: one generator, or the two ways of nesting a product
\* of three
OptSetups ==
    {<<g>> : g \in LeafGenerators}
        \cup {<<Times(g1, g2)>> : g1 \in Factors, g2 \in Factors}
        \cup {<<Times(Times(a, b), c), Times(a, Times(b, c))>> :
                a \in NestedFactors, b \in NestedFactors, c \in NestedFactors}

NoTops == <<>>

InitOpt ==
    /\ setup \in OptSetups
    /\ it = [heap |-> <<>>, tops |-> NoTops]
    /\ run_no = 0 /\ pc = "idle" /\ gs = NoGs /\ env = NoEnv /\ todo = <<>>
    /\ combination_idx = 0 /\ pmc = NoPmc /\ futures = <<>> /\ told = {}
    /\ calls = <<>> /\ csv_file = NoFile /\ model_files = {} /\ result = NoResult
    /\ cache = <<>> /\ cache_log = <<>> /\ sa = NoSa

RECURSIVE Reach(_, _)
\* the iterator objects that the one at ref holds on to, itself first
Reach(heap, ref) ==
    IF ref = 0 THEN <<>>
    ELSE <<ref>> \o Reach(heap, heap[ref].i1) \o Reach(heap, heap[ref].i2)

FirstAt(seq, x) == CHOOSE i \in DOMAIN seq : seq[i] = x /\ \A j \in 1..(i - 1) : seq[j] # x
Distinct(seq) == SelectSeqNe([i \in DOMAIN seq |-> IF FirstAt(seq, seq[i]) = i THEN seq[i] ELSE 0], 0)

\* an iterator object lives as long as something holds on to it: the heap with
\* the objects that the callers' iterators reach, and the callers' iterators
Reclaim(heap, tops) ==
    LET live == Distinct(Concat([t \in DOMAIN tops |-> Reach(heap, tops[t].ref)]))
        at(ref) == IF ref = 0 THEN 0 ELSE FirstAt(live, ref)
    IN  [heap |-> [n \in DOMAIN live |-> [heap[live[n]] EXCEPT !.i1 = at(@), !.i2 = at(@)]],
         tops |-> [t \in DOMAIN tops |-> [tops[t] EXCEPT !.ref = at(@)]]]

\* a caller calls iter_options() on generator k
OptIterOptions(k) ==
    /\ Len(it.tops) < MaxIterators
    /\ LET c == IterOptions(it.heap, setup[k])
       IN  it' = Reclaim(c.heap, Append(it.tops, [gen |-> k, ref |-> c.ref, out |-> <<>>, done |-> FALSE]))
    /\ UNCHANGED <<setup, run_no, pc, gs, env, todo, combination_idx, pmc, futures, told,
                   calls, csv_file, model_files, result, cache, cache_log, sa>>

\* a caller asks iterator t for its next list of options
OptNext(t) ==
    /\ ~it.tops[t].done
    /\ LET n == NextOn(it.heap, it.tops[t].ref)
       IN  it' = Reclaim(n.heap, IF n.stop
                                 THEN [it.tops EXCEPT ![t].done = TRUE]
                                 ELSE [it.tops EXCEPT ![t].out = Append(@, n.value)])
    /\ UNCHANGED <<setup, run_no, pc, gs, env, todo, combination_idx, pmc, futures, told,
                   calls, csv_file, model_files, result, cache, cache_log, sa>>

NextOpt ==
    \/ \E k \in DOMAIN setup : OptIterOptions(k)
    \/ \E t \in DOMAIN it.tops : OptNext(t)

SpecOpt == InitOpt /\ [][NextOpt]_vars

(***************************************************************************)
(* The properties.                                                         *)
(***************************************************************************)
CallsOf(op) == SelectSeq(calls, LAMBDA e : e.op = op)
ParamsOf(cs) == [i \in DOMAIN cs |-> cs[i].params]
IdxOf(cs) == [i \in DOMAIN cs |-> cs[i].idx]
InRun == pc \in {"sequential", "parallel", "returned", "raised"}
SkippingExisting == gs.incremental /\ gs.incremental_skip_existing

\* the combination a = va, b = vb
AB(va, vb) == << <<"a", va>>, <<"b", vb>> >>

\* the enumeration order the claims state: the alternatives in the order given,
\* each in the order of the flat iterator
InOrderGivenOf ==
    [l \in OptionLists |->
        Concat([k \in DOMAIN l |-> IterParamCombinations(l[k])])]
InOrderGiven(parameter_options_list) == InOrderGivenOf[parameter_options_list]
\* the combinations the run has enumerated so far
EnumeratedSoFar ==
    LET all == InOrderGiven(setup.parameter_options)
    IN  SubSeq(all, 1, Len(all) - Len(todo))

\* C1: a sequential grid search without skip decider and without incremental
\* skipping calls the model factory exactly once per enumerated combination, in
\* enumeration order (the alternatives in the order given, each in the flat
\* iterator's order); a run that returns has enumerated every combination, and
\* for the options a:[1,2], b:[x,y] the calls are (1,x), (1,y), (2,x), (2,y).
C1_FactoryOncePerCombinationInOrder ==
    (InRun /\ gs.num_processes = 1
       /\ gs.parameter_combination_skip_decider = "none" /\ ~SkippingExisting)
    => /\ ParamsOf(CallsOf("model_factory")) = EnumeratedSoFar
       /\ pc = "returned" =>
             ParamsOf(CallsOf("model_factory")) = InOrderGiven(setup.parameter_options)
       /\ (pc = "returned" /\ setup.parameter_options = <<OptAB>>) =>
             ParamsOf(CallsOf("model_factory"))
                = <<AB(I1, Sx), AB(I1, Sy), AB(I2, Sx), AB(I2, Sy)>>

\* C1 witness: a search over two different alternatives has returned after six
\* factory calls
C1_Witness ==
    /\ pc = "returned" /\ gs.num_processes = 1
    /\ gs.parameter_combination_skip_decider = "none" /\ ~SkippingExisting
    /\ setup.parameter_options = <<OptAB, OptBA>>
    /\ Len(CallsOf("model_factory")) = 6

\* a value that pandas reads back from the CSV file as it was written
SurvivesRoundTrip(v) == v.ty = "int" \/ (v.ty = "str" /\ ~IsNumericText(v.s))
\* equality of two combinations as Python dicts
SameCombination(c, d) ==
    Keys(c) = Keys(d) /\ \A k \in Keys(c) : Get(c, k) = Get(d, k)
DistinctCombinations(combos) ==
    \A i, j \in DOMAIN combos : i # j => ~SameCombination(combos[i], combos[j])
\* row r of a CSV file is the row of combination c
IsRowOf(file, r, c) ==
    \A i \in DOMAIN c :
        /\ c[i][1] \in Range(file.cols)
        /\ file.rows[r][IndexOf(file.cols, c[i][1])] = Str(c[i][2])
RowsOf(file, c) == {r \in DOMAIN file.rows : IsRowOf(file, r, c)}

\* the case of C2: the second of two sequential searches on the same options and
\* the same table path, resuming with the existence check, without skip decider,
\* on distinct combinations of values that survive the round trip
C2_Resuming ==
    /\ run_no = 2 /\ InRun /\ gs.num_processes = 1 /\ SkippingExisting
    /\ gs.parameter_combination_skip_decider = "none"
    /\ DistinctCombinations(InOrderGiven(setup.parameter_options))
    /\ \A c \in Range(InOrderGiven(setup.parameter_options)) :
          \A i \in DOMAIN c : SurvivesRoundTrip(c[i][2])

\* C2: resuming a search, the second run calls the model factory exactly for the
\* combinations that have no row in the table persisted by the first run, in
\* enumeration order, and when it returns the table (persisted and in memory)
\* holds exactly one row per enumerated combination.
C2_ResumeEvaluatesExactlyTheMissing ==
    C2_Resuming =>
        LET all == InOrderGiven(setup.parameter_options)
        IN  /\ ParamsOf(CallsOf("model_factory"))
                  = SelectSeq(EnumeratedSoFar, LAMBDA c : RowsOf(env.found, c) = {})
            /\ pc = "returned" =>
                  /\ csv_file.exists
                  /\ Len(csv_file.rows) = Len(all)
                  /\ \A c \in Range(all) : Cardinality(RowsOf(csv_file, c)) = 1
                  /\ csv_file = ToCsv(pmc.df)

\* C2 witness: the first run aborted after persisting some rows and the second
\* run has returned after evaluating the rest
C2_Witness ==
    /\ C2_Resuming /\ pc = "returned"
    /\ Len(env.found.rows) > 0
    /\ Len(env.found.rows) < Len(InOrderGiven(setup.parameter_options))
    /\ Len(CallsOf("model_factory")) > 0

\* the units whose outcome run has collected, in submission order
CollectedUnits == SelectSeq(futures, LAMBDA u : u.status = "collected")
EvaluatedUnits(us) == SelectSeq(us, LAMBDA u : u.outcome = "ok")
\* row r of the in-memory table holds the parameter values of the combination
HoldsParams(r, params) ==
    /\ r \in DOMAIN pmc.df.rows
    /\ \A i \in DOMAIN params :
          /\ params[i][1] \in Range(pmc.df.cols)
          /\ pmc.df.rows[r][IndexOf(pmc.df.cols, params[i][1])] = params[i][2]

\* C3: in a parallel grid search the units are submitted in enumeration order and,
\* whatever the order in which they complete, collected strictly in submission
\* order: the collected units are a prefix of the submitted ones, add_values is
\* called for the evaluated ones among them in that order, and with no sort
\* column the rows added to the table are in that order too.
C3_CollectedInSubmissionOrder ==
    (InRun /\ gs.num_processes > 1) =>
        LET added == EvaluatedUnits(CollectedUnits)
        IN  /\ ParamsOf(futures)
                  = SelectSeq(EnumeratedSoFar, LAMBDA c : ~SkipsExisting(c))
            /\ \A i, j \in DOMAIN futures : i < j => futures[i].idx < futures[j].idx
            /\ \A i, j \in DOMAIN futures :
                  (i < j /\ futures[j].status = "collected")
                      => futures[i].status = "collected"
            /\ ParamsOf(CallsOf("add_values")) = ParamsOf(added)
            /\ IdxOf(CallsOf("add_values")) = IdxOf(added)
            /\ pmc.sort_column_name = NoColumn =>
                  /\ Len(pmc.df.rows) = Len(pmc.value_dicts) + Len(added)
                  /\ \A k \in DOMAIN added :
                        HoldsParams(Len(pmc.value_dicts) + k, added[k].params)

\* C3 witness: a unit has completed while a unit submitted before it is still
\* with the pool, after the first unit was collected and its row added
C3_Witness ==
    /\ pc = "parallel" /\ Len(CallsOf("add_values")) >= 1
    /\ \E i, j \in DOMAIN futures :
          i < j /\ futures[i].status = "queued" /\ futures[j].status = "done"
                /\ futures[j].outcome = "ok"

\* every call made in the run: those of the orchestrator and those of the units
AllCalls == calls \o Concat([i \in DOMAIN futures |-> futures[i].calls])
\* the calls _eval_params and collect_result make for a combination they evaluate
EvaluationOps ==
    {"model_factory", "compute_metrics", "save", "tell", "track_values", "add_values"}
\* the indices of the combinations for which is_skipped returned true
SkippedIdx ==
    LET all == AllCalls
    IN  {all[k].idx : k \in {q \in DOMAIN all :
                                 all[q].op = "is_skipped" /\ all[q].ret = "True"}}

\* C4: for a combination for which is_skipped returned true there is no call of
\* the model factory, of the evaluator, of the model save, of tell, of the
\* tracking or of add_values; where the run started without files, no model file
\* bears its index; and the table has grown by one row per add_values call only.
C4_SkippedCombinationLeavesNoTrace ==
    InRun =>
        LET all == AllCalls
            skipped == SkippedIdx
        IN
        /\ \A k \in DOMAIN all :
              all[k].idx \in skipped => all[k].op \notin EvaluationOps
        /\ (run_no = 1 /\ ~env.found.exists) =>
              \A n \in skipped : Filename(gs.name, n).s \notin model_files
        /\ Len(pmc.df.rows) = Len(pmc.value_dicts) + Len(CallsOf("add_values"))
        /\ Len(CallsOf("tell")) = Len(told)

\* C4 witness: a run with models saved and values tracked has returned after the
\* decider skipped a combination and another one was evaluated and collected
C4_Witness ==
    /\ pc = "returned" /\ gs.model_save_directory /\ setup.tracking
    /\ SkippedIdx # {}
    /\ Len(CallsOf("add_values")) >= 1

\* the indices of the calls of op among the first n calls of the run
IdxBefore(op, n) == {calls[k].idx : k \in {q \in 1..n : calls[q].op = op}}

\* C5: in a sequential grid search with a skip decider, is_skipped is called for
\* the combinations in enumeration order (those the existence check passes over
\* left out) and directly before the combination is built; tell is called only
\* for an evaluated combination, after its evaluation and before the next
\* is_skipped; so at every is_skipped the decider has been told exactly the
\* combinations evaluated earlier in the run, in the order of their evaluation.
C5_DeciderCallsOrdered ==
    (InRun /\ gs.num_processes = 1 /\ gs.parameter_combination_skip_decider # "none") =>
        LET skipped == SkippedIdx
        IN
        /\ ParamsOf(CallsOf("is_skipped"))
              = SelectSeq(EnumeratedSoFar, LAMBDA c : ~SkipsExisting(c))
        /\ ParamsOf(CallsOf("tell")) = [t \in DOMAIN told |-> told[t][1]]
        /\ \A k \in DOMAIN calls :
              /\ calls[k].op = "model_factory" =>
                    /\ k > 1 /\ calls[k - 1].op = "is_skipped"
                    /\ calls[k - 1].idx = calls[k].idx /\ calls[k - 1].ret = "False"
              /\ calls[k].op = "tell" =>
                    /\ calls[k].idx \in IdxBefore("is_skipped", k - 1)
                    /\ calls[k].idx \in IdxBefore("compute_metrics", k - 1)
                    /\ calls[k].idx \notin skipped
                    /\ \A q \in DOMAIN calls :
                          (calls[q].idx = calls[k].idx
                             /\ calls[q].op \in {"is_skipped", "model_factory",
                                                  "compute_metrics", "save"}) => q < k
              /\ calls[k].op = "is_skipped" =>
                    /\ IdxBefore("tell", k - 1) = IdxBefore("compute_metrics", k - 1)
                    /\ IdxBefore("tell", k - 1) = IdxBefore("model_factory", k - 1)
                    /\ \A q \in 1..(k - 1) : calls[q].idx < calls[k].idx
        /\ pc = "returned" =>
              IdxBefore("tell", Len(calls)) = IdxBefore("is_skipped", Len(calls)) \ skipped

\* C5 witness: a run whose decider skipped a combination because of what it had
\* been told before has returned after two evaluations
C5_Witness ==
    /\ pc = "returned" /\ gs.parameter_combination_skip_decider = "equivalent"
    /\ Len(CallsOf("tell")) >= 2
    /\ \E k \in DOMAIN calls :
          /\ calls[k].op = "is_skipped" /\ calls[k].ret = "True"
          /\ IdxBefore("tell", k - 1) # {}

\* the call at which the stage that fails in this run failed, if it did
StageOp ==
    [build |-> "model_factory", evaluate |-> "compute_metrics", save |-> "save",
     none |-> "none"]
FailedCalls ==
    {k \in DOMAIN calls : calls[k].op = StageOp[env.fail_stage] /\ Fails(calls[k].params)}
\* the texts of the rows of the in-memory table
RowTexts(df) == IF df.exists THEN ToCsv(df).rows ELSE <<>>
\* the rows the in-memory table has beyond those loaded are those of add_values
AddedRowsAreThoseCollected ==
    LET added == CallsOf("add_values")
    IN  /\ Len(pmc.df.rows) = Len(pmc.value_dicts) + Len(added)
        /\ \A j \in DOMAIN added :
              \E r \in DOMAIN pmc.df.rows : HoldsParams(r, added[j].params)

\* C6 as stated: after a failure at combination k of a sequential run with a
\* persisted table, the table in memory and the persisted one hold the same rows,
\* those of the combinations evaluated before k (rows loaded at construction
\* counted among them).
C6_TableInMemoryAndPersistedAgree ==
    (pc = "raised" /\ gs.num_processes = 1 /\ gs.csv_results_path) =>
        /\ AddedRowsAreThoseCollected
        /\ csv_file.rows = RowTexts(pmc.df)

\* C6, amended: in a sequential run the failure of building, evaluating or saving
\* combination k ends the run with the failure; the failing call is the last call
\* of the run, so no later combination is evaluated and neither tell nor
\* track_values nor add_values is called for k; the in-memory table holds the rows
\* loaded at construction and one row per combination evaluated before k in this
\* run; the persisted file equals the in-memory table once a row was added in this
\* run and is otherwise left as it was found when the run began.
C6_FailureAbortsSequentialRun ==
    (InRun /\ gs.num_processes = 1) =>
        /\ (FailedCalls # {}) <=> (pc = "raised")
        /\ pc = "raised" =>
              /\ FailedCalls = {Len(calls)}
              /\ \A q \in DOMAIN calls : calls[q].idx <= calls[Len(calls)].idx
              /\ \A q \in DOMAIN calls :
                    calls[q].op \in {"tell", "track_values", "add_values"}
                        => calls[q].idx < calls[Len(calls)].idx
              /\ ParamsOf(CallsOf("add_values"))
                    = SubSeq(ParamsOf(CallsOf("model_factory")), 1,
                             Len(CallsOf("model_factory")) - 1)
              /\ AddedRowsAreThoseCollected
              /\ csv_file = IF gs.csv_results_path /\ CallsOf("add_values") # <<>>
                            THEN ToCsv(pmc.df) ELSE env.found

\* C6 witness: a run that loaded rows, evaluated and persisted a combination and
\* then failed saving the model of the next
C6_Witness ==
    /\ pc = "raised" /\ gs.num_processes = 1 /\ env.fail_stage = "save"
    /\ Len(pmc.value_dicts) >= 1
    /\ Len(CallsOf("add_values")) >= 1

AnyFailed == \E i \in DOMAIN futures : futures[i].outcome = "failed"
AllCompleted == todo = <<>> /\ \A i \in DOMAIN futures : futures[i].status # "queued"

\* C7 as stated, its middle part: once a unit has failed, no further combination
\* is submitted.
C7_NoSubmissionAfterFailure ==
    [][AnyFailed => Len(futures') = Len(futures)]_vars

\* where a parallel run stands with respect to a failure: it raises only at
\* the first failed handle in submission order, having collected the handles
\* before it and none after it, with every combination submitted; it collects no
\* failed unit and does not return with one
C7_RaisedAtFirstFailingHandle ==
    (InRun /\ gs.num_processes > 1) =>
        /\ pc = "raised" =>
              /\ todo = <<>>
              /\ Uncollected # {}
              /\ futures[NextHandle].status = "done"
              /\ futures[NextHandle].outcome = "failed"
              /\ \A j \in 1..(NextHandle - 1) : futures[j].outcome # "failed"
              /\ \A q \in DOMAIN calls : calls[q].idx < futures[NextHandle].idx
        /\ \A i \in DOMAIN futures :
              futures[i].status = "collected" => futures[i].outcome # "failed"
        /\ pc = "returned" => ~AnyFailed

\* C7, amended: in a parallel grid search a failed unit stops neither the
\* submitting loop nor the pool: after a failure every combination still gets
\* submitted and every submitted unit runs to completion; the failure is raised
\* when the orchestrator, having submitted everything, drains the first failing
\* handle in submission order, and never otherwise.
C7_FailureRaisedOnDrain ==
    /\ []C7_RaisedAtFirstFailingHandle
    /\ AnyFailed ~> AllCompleted

\* C7 witness: the run has raised the failure of a unit while a unit submitted
\* after it has completed with a result and another is still with the pool
C7_Witness ==
    /\ pc = "raised"
    /\ \E j \in DOMAIN futures :
          j > NextHandle /\ futures[j].status = "done" /\ futures[j].outcome = "ok"
    /\ \E j \in DOMAIN futures : j > NextHandle /\ futures[j].status = "queued"

\* C8: the combination index handed to _eval_params, which names the saved model
\* file, is the 0-based position of the combination in the enumeration, the
\* combinations passed over by the skip decider or by the incremental existence
\* check counted.
C8_IndexIsEnumerationPosition ==
    InRun =>
        LET all == AllCalls
            enumeration == InOrderGiven(setup.parameter_options)
        IN  \A k \in DOMAIN all :
                all[k].op = "model_factory" =>
                    /\ all[k].idx + 1 \in DOMAIN enumeration
                    /\ enumeration[all[k].idx + 1] = all[k].params

\* the key set of an option mapping
KeySet(parameter_options) == {parameter_options[i][1] : i \in DOMAIN parameter_options}
\* the combination b = vb, a = va
BA(vb, va) == << <<"b", vb>>, <<"a", va>> >>

\* C9: constructing a grid search fails with the configuration error exactly
\* when two of the alternative mappings differ in their key sets; after the error
\* nothing has been called, built, evaluated or written; an accepted search
\* enumerates the concatenation of the mappings' enumerations, and for the two
\* mappings a:[1,2], b:[x,y] and b:[z], a:[2,1] a run without skipping evaluates
\* (1,x), (1,y), (2,x), (2,y), (z,2), (z,1).
C9_KeySetsCheckedAtConstruction ==
    /\ pc # "new" =>
          ((pc = "config_error") <=>
              \E i, j \in DOMAIN setup.parameter_options :
                  KeySet(setup.parameter_options[i]) # KeySet(setup.parameter_options[j]))
    /\ pc = "config_error" =>
          /\ ~gs.constructed /\ calls = <<>> /\ futures = <<>> /\ pmc = NoPmc
          /\ ~csv_file.exists /\ model_files = {} /\ ~result.returned
    /\ InRun =>
          /\ gs.parameter_options_list = setup.parameter_options
          /\ EnumeratedSoFar \o todo = InOrderGiven(setup.parameter_options)
    /\ (pc = "returned" /\ setup.parameter_options = <<OptAB, OptBA>> /\ ~SkippingExisting
          /\ gs.parameter_combination_skip_decider = "none") =>
          ParamsOf(CallsOf("model_factory"))
             = <<AB(I1, Sx), AB(I1, Sy), AB(I2, Sx), AB(I2, Sy), BA(Sz, I2), BA(Sz, I1)>>

\* C9 witness: the construction with a second mapping that has the extra key c
\* has failed
C9_Witness ==
    pc = "config_error" /\ setup.parameter_options = <<OptAB, OptABC>>

\* two combinations map to the same equivalence key
SameEquivalenceKey(c1, c2) == Get(c1, "a") = Get(c2, "a")
\* the calls of set before call k of the log on the equivalence key of call k
EarlierSets(k) ==
    {q \in 1..(k - 1) : cache_log[q].op = "set"
                          /\ SameEquivalenceKey(cache_log[q].params, cache_log[k].params)}

\* C10: get(c2) returns the value of the latest set(c1, v) on a combination c1
\* with the equivalence key of c2, whatever the other fields of c1 and c2 and
\* whatever was set or got on other keys in between, and None if there was no
\* such set; in particular set(c1, v) directly followed by get(c2) returns v.
C10_GetReturnsValueSetForEquivalenceKey ==
    \A k \in DOMAIN cache_log :
        cache_log[k].op = "get" =>
            /\ EarlierSets(k) = {} => cache_log[k].value = NoneV
            /\ \A q \in EarlierSets(k) :
                  (\A r \in EarlierSets(k) : r <= q)
                      => cache_log[k].value = cache_log[q].value

\* C10 witness: a value was set for one combination, another value then for an
\* equivalent one with another b, and get on a third form of the combination
\* returned the second value
C10_Witness ==
    /\ Len(cache_log) = 3
    /\ cache_log[1] = [op |-> "set", params |-> AB(I2, Sx), value |-> IntV(1)]
    /\ cache_log[2] = [op |-> "set", params |-> AB(I2, Sy), value |-> IntV(2)]
    /\ cache_log[3] = [op |-> "get", params |-> BA(Sz, I2), value |-> IntV(2)]

(***************************************************************************)
(* The annealing adapter: claims C11 and C12.                              *)
(***************************************************************************)
\* the positions of the log at which the cost evaluation n made its calls
CallsOfEvaluation(n) == {k \in DOMAIN calls : calls[k].idx = n}
\* the positions of the log before k at which op was called on the key of call k
EarlierOnKey(op, k) ==
    {q \in 1..(k - 1) : /\ calls[q].op = op
                        /\ EquivalenceClass(calls[q].params) = EquivalenceClass(calls[k].params)}
\* the rows of the collection on the equivalence key of params
RowsOnKey(params) ==
    IF pmc.df.exists
    THEN {r \in DOMAIN pmc.df.rows :
             pmc.df.rows[r][IndexOf(pmc.df.cols, "a")] = EquivalenceClass(params)}
    ELSE {}
\* the operations a cost evaluation performs on a miss, after the lookup
MissOps == {"model_factory", "compute_metrics", "track_values", "add_values", "cache_set"}

\* C11 as stated: with a cache configured, the model factory is called at most
\* once per equivalence key over the cost evaluations of the adapter.
C11_FactoryOncePerKey ==
    setup.caching =>
        \A k \in DOMAIN calls :
            calls[k].op = "model_factory" => EarlierOnKey("model_factory", k) = {}

\* C11: with a cache configured, every cost evaluation looks the parameters up
\* first; a hit (there is one exactly when metrics were stored for the key
\* before) is the only call of the evaluation: no factory, no evaluator, no
\* tracking, no row, no store; a miss goes on to the factory.  No factory call
\* on a key follows a store for that key, so the factory is called more than
\* once for a key only after evaluations of that key that failed, and the
\* collection holds at most one row per key.
C11_CacheConsultedFirst ==
    setup.caching =>
        /\ \A n \in 1..sa.evals :
              LET of_n == CallsOfEvaluation(n)
                  first == CHOOSE k \in of_n : \A q \in of_n : k <= q
              IN  /\ of_n # {}
                  /\ calls[first].op = "cache_get"
                  /\ (calls[first].ret = "hit") = (EarlierOnKey("cache_set", first) # {})
                  /\ calls[first].ret = "hit" => of_n = {first}
                  /\ calls[first].ret = "miss" =>
                        /\ first + 1 \in of_n
                        /\ calls[first + 1].op = "model_factory"
                  /\ \A k \in of_n \ {first} : calls[k].op \in MissOps
        /\ \A k \in DOMAIN calls :
              calls[k].op = "model_factory" => EarlierOnKey("cache_set", k) = {}
        /\ \A k \in DOMAIN calls :
              calls[k].op = "model_factory" =>
                  \A q \in EarlierOnKey("model_factory", k) :
                      \E f \in q..(k - 1) :
                          /\ calls[f].idx = calls[q].idx
                          /\ calls[f].op \in {"model_factory", "compute_metrics"}
                          /\ \A g \in CallsOfEvaluation(calls[q].idx) : g <= f
                          /\ Fails(calls[f].params)
        /\ \A k \in DOMAIN calls : Cardinality(RowsOnKey(calls[k].params)) <= 1
        /\ \A k \in DOMAIN calls :
              calls[k].op = "cache_set" =>
                  CacheGet(cache, calls[k].params) = DictV(ComputeMetrics(
                      calls[CHOOSE q \in 1..k : /\ calls[q].op = "cache_set"
                                                /\ EarlierOnKey("cache_set", q) = {}
                                                /\ EquivalenceClass(calls[q].params)
                                                     = EquivalenceClass(calls[k].params)].params))

\* a hit on parameters other than those stored, with a row in the collection
C11_Witness ==
    /\ setup.caching /\ Collecting(setup)
    /\ \E k \in DOMAIN calls :
          /\ calls[k].op = "cache_get" /\ calls[k].ret = "hit"
          /\ \E q \in EarlierOnKey("cache_set", k) : calls[q].params # calls[k].params
          /\ RowsOnKey(calls[k].params) # {}

\* a run has returned after using up its step budget
SABudgetExhausted == pc = "returned" /\ result.returned /\ result.exhausted
\* the metrics of the state the run ended in, as the cost function returned them
FinalStateMetrics ==
    IF setup.caching THEN CacheGet(cache, sa.params).d ELSE ComputeMetrics(sa.params)

Added == ParamsOf(SelectSeq(calls, LAMBDA e : e.idx = run_no))
\* the cell of row r of the in-memory table under column col
Cell(r, col) == pmc.df.rows[r][IndexOf(pmc.df.cols, col)]
\* a sort column is configured, and the loaded rows and all records added carry it
SortColumnCarried ==
    /\ setup.sort_column_name # NoColumn
    /\ \A k \in DOMAIN Added : Has(Added[k], setup.sort_column_name)
    /\ \A r \in DOMAIN pmc.value_dicts :
          ~IsMissing(Get(pmc.value_dicts[r], setup.sort_column_name))

\* C13: after every add_values on a collection with a sort column that the
\* loaded rows and all records added carry, the rows are ordered by the sort
\* column: non-decreasing when ascending, non-increasing otherwise.
C13_RowsOrderedBySortColumn ==
    (pc = "constructed" /\ Added # <<>> /\ SortColumnCarried) =>
        /\ setup.sort_column_name \in Range(pmc.df.cols)
        /\ Len(pmc.df.rows) = Len(pmc.value_dicts) + Len(Added)
        /\ \A r \in 1..(Len(pmc.df.rows) - 1) :
              LET v == Cell(r, setup.sort_column_name).n
                  w == Cell(r + 1, setup.sort_column_name).n
              IN  IF setup.ascending THEN v <= w ELSE v >= w

\* rows loaded in ascending order and a record added under descending order,
\* with values of the sort column that differ
C13_Witness ==
    /\ pc = "constructed" /\ Added # <<>> /\ SortColumnCarried
    /\ ~setup.ascending
    /\ Len(pmc.value_dicts) = 2
    /\ Get(pmc.value_dicts[1], "m").n < Get(pmc.value_dicts[2], "m").n
    /\ Cell(1, "m") # Cell(Len(pmc.df.rows), "m")

\* how often x occurs in the sequence rows
Count(rows, x) == Cardinality({r \in DOMAIN rows : rows[r] = x})
\* a row of the frame df laid out under the columns cols: None under a column
\* that df does not have
LaidOut(df, row, cols) ==
    [c \in DOMAIN cols |->
        IF cols[c] \in Range(df.cols) THEN row[IndexOf(df.cols, cols[c])] ELSE NoneV]
\* the row that add_values makes of values under the columns cols
RowOf(values, cols) == [c \in DOMAIN cols |-> Get(values, cols[c])]

\* C14: every add_values leaves the columns of before and the keys of its record
\* as the columns, no column twice; the rows of before are all there with their
\* values and None under every column that is new; there is one more row, that
\* of the record, with None under every column the record lacks.  So after any
\* sequence the columns are those loaded and the keys of all records added.
C14_ColumnsOnlyGrow ==
    [][(pc = "constructed" /\ Len(calls') = Len(calls) + 1) =>
          LET values == calls'[Len(calls')].params
              cols == pmc'.df.cols
              before == [r \in DOMAIN pmc.df.rows |-> LaidOut(pmc.df, pmc.df.rows[r], cols)]
              new_row == RowOf(values, cols)
          IN  /\ Range(cols) = Range(pmc.df.cols) \cup Keys(values)
              /\ Cardinality(Range(cols)) = Len(cols)
              /\ Len(pmc'.df.rows) = Len(pmc.df.rows) + 1
              /\ \A r \in DOMAIN pmc'.df.rows :
                    LET x == pmc'.df.rows[r]
                    IN  Count(pmc'.df.rows, x)
                          = Count(before, x) + (IF x = new_row THEN 1 ELSE 0)
              /\ \A k \in DOMAIN Added' : Keys(Added'[k]) \subseteq Range(cols)
      ]_vars

\* loaded rows, then a record with a key that is no column yet, then a record
\* that lacks that key
C14_Witness ==
    /\ pc = "constructed" /\ pmc.value_dicts # <<>> /\ Len(Added) = 2
    /\ Keys(Added[1]) \ Keys(Added[2]) # {}
    /\ Keys(Added[2]) \ Keys(Added[1]) # {}
    /\ {"b", "str(model)"} \subseteq Range(pmc.df.cols)
    /\ \E r \in DOMAIN pmc.df.rows : Cell(r, "b") = NoneV /\ Cell(r, "str(model)") = Sx

\* C15: with a table path, after every add_values the file holds the whole
\* in-memory table: its columns in their order, and every row in its current
\* order, a cell holding the text of the value and nothing for a missing value.
C15_FileHoldsWholeTable ==
    (pc = "constructed" /\ setup.csv_path /\ Added # <<>>) =>
        /\ csv_file.exists
        /\ csv_file.cols = pmc.df.cols
        /\ Len(csv_file.rows) = Len(pmc.df.rows)
        /\ \A r \in DOMAIN pmc.df.rows : \A c \in DOMAIN pmc.df.cols :
              csv_file.rows[r][c]
                = (IF IsMissing(pmc.df.rows[r][c]) THEN <<>> ELSE Str(pmc.df.rows[r][c]))

\* the record added last is not the last row: sorting has moved rows of before
C15_Witness ==
    /\ pc = "constructed" /\ setup.csv_path /\ Len(Added) >= 2
    /\ Len(csv_file.rows) >= 3
    /\ "m" \in Range(pmc.df.cols)
    /\ pmc.df.rows[Len(pmc.df.rows)] # RowOf(Added[Len(Added)], pmc.df.cols)
    /\ pmc.df.rows[1] = RowOf(Added[Len(Added)], pmc.df.cols)

\* contains has answered on a collection just loaded in incremental mode
AskedAfterReload ==
    /\ pc = "constructed" /\ setup.csv_path /\ setup.incremental
    /\ pmc.df.exists /\ Added = <<>>
    /\ result.returned
\* the value of the loaded row r that contains compares with: that under the
\* column key, None when key is no column or no identifier
Compared(r, key) ==
    IF key \in Range(pmc.df.cols) /\ IsIdentifier(key) THEN Cell(r, key) ELSE NoneV

BestAsked == pc = "returned" /\ "best" \in DOMAIN result
\* the direction get_best_params went by
DirectionUsed ==
    IF result.higher_is_better # "None" THEN result.higher_is_better
    ELSE IF setup.ascending THEN "False" ELSE "True"

\* C17: get_best_params raises the ValueError exactly when no metric name is
\* passed and the search had no sort column, or no direction is passed and the
\* search had no sort column (there is a default direction only with a sort
\* column); so a metric name passed alone after a search without sort column
\* raises, and after a search with sort column nothing need be passed.
C17_ValueErrorIffNothingToGoBy ==
    BestAsked =>
        /\ (result.best.outcome = "ValueError") <=>
              \/ result.metric_name = NoColumn /\ setup.sort_column_name = NoColumn
              \/ result.higher_is_better = "None" /\ setup.sort_column_name = NoColumn
        /\ (result.metric_name = NoColumn /\ setup.sort_column_name = NoColumn) =>
              result.best = Raised("ValueError", "metric_name must be specified")
        /\ (result.metric_name # NoColumn /\ result.higher_is_better = "None"
              /\ setup.sort_column_name = NoColumn) =>
              result.best = Raised("ValueError", "higher_is_better must be specified")

\* a metric name passed alone to the result of a search without sort column
C17_Witness ==
    /\ BestAsked /\ setup.sort_column_name = NoColumn
    /\ result.metric_name = "m" /\ result.higher_is_better = "None"
    /\ result.best.outcome = "ValueError"
    /\ result.df.exists

\* C18: an answer of get_best_params on a table with rows gives the greatest
\* value of the metric column when higher is better and the least otherwise,
\* and as parameters the values of exactly the parameter names of the search in
\* one row that holds that value.
C18_BestRowOfTheTable ==
    (BestAsked /\ result.best.outcome = "ok") =>
        LET c == IndexOf(result.df.cols, result.best.metric_name)
            rows == result.df.rows
            best == result.best.metric_value
        IN  /\ rows # <<>>
            /\ \A r \in DOMAIN rows :
                  IF DirectionUsed = "True" THEN rows[r][c].n <= best.n
                  ELSE rows[r][c].n >= best.n
            /\ \E r \in DOMAIN rows :
                  /\ rows[r][c] = best
                  /\ result.best.params
                       = {<<param, rows[r][IndexOf(result.df.cols, param)]>> :
                             param \in KeySet(setup.parameter_options[1])}

\* the best row is the last of a table of four rows in ascending order
C18_Witness ==
    /\ BestAsked /\ result.best.outcome = "ok"
    /\ setup.sort_column_name = "m" /\ setup.ascending
    /\ result.higher_is_better = "True"
    /\ Len(result.df.rows) = 4
    /\ result.best.metric_value = result.df.rows[4][IndexOf(result.df.cols, "m")]

(***************************************************************************)
(* The flat iterator: claims C19 and C20.                                  *)
(***************************************************************************)
\* the numbers of values of the parameters, in the order of declaration
OptionCounts == [i \in DOMAIN setup |-> Len(setup[i][2])]
\* the dict the consumer holds from yield k
YieldOf(k) == it.heap[it.yielded[k]]
\* combination k in lexicographic order of the value positions, the parameter
\* declared first being the most significant
LexCombination(k) ==
    [i \in DOMAIN setup |->
        LET inner == Product(SubSeq(OptionCounts, i + 1, Len(setup)))
        IN  <<setup[i][1], setup[i][2][(((k - 1) \div inner) % OptionCounts[i]) + 1]>>]

\* C19: the generator yields as many combinations as the product of the numbers
\* of values, no more while it runs and exactly as many when it has ended: one,
\* the empty one, without parameters, and none when a parameter has no value.
\* Every combination yielded has the keys of the input.
C19_YieldsTheProduct ==
    pc \in {"created", "yielded", "exhausted"} =>
        /\ Len(it.yielded) <= Product(OptionCounts)
        /\ pc = "yielded" => it.yielded # <<>>
        /\ pc = "exhausted" => Len(it.yielded) = Product(OptionCounts)
        /\ \A k \in DOMAIN it.yielded :
              k \notin it.mutated => /\ KeySet(YieldOf(k)) = KeySet(setup)
                                     /\ Len(YieldOf(k)) = Len(setup)

\* all four combinations of two parameters of two values
C19_Witness ==
    /\ pc = "exhausted" /\ Len(setup) = 2
    /\ Len(it.yielded) = 4

\* C20: yield k is combination k in lexicographic order, the parameter declared
\* first the most significant and the one declared last varying fastest.  Each
\* yield is a dict of its own: no two yields are the same dict, none is the
\* dict of the generator, and what the consumer writes to one shows in that one
\* only.  The generator run to its end has yielded the list that the searches
\* enumerate.
C20_LexicographicAndIndependent ==
    pc \in {"created", "yielded", "exhausted"} =>
        /\ \A k \in DOMAIN it.yielded :
              /\ it.yielded[k] # 1
              /\ \A q \in DOMAIN it.yielded : q # k => it.yielded[q] # it.yielded[k]
              /\ YieldOf(k) = IF k \in it.mutated
                              THEN Put(LexCombination(k), ParamNames[1], S1)
                              ELSE LexCombination(k)
        /\ pc = "exhausted" =>
              IterParamCombinations(setup)
                = [k \in 1..Product(OptionCounts) |-> LexCombination(k)]

\* four yields of which the consumer has written to the first and the third
C20_Witness ==
    /\ pc = "exhausted" /\ Len(it.yielded) = 4
    /\ setup[1][2] = <<I2, I1>>
    /\ it.mutated = {1, 3}

(***************************************************************************)
(* The option generators                                                   *)
(***************************************************************************)
\* the iterators that the callers hold on generators of the kind
TopsOn(kind) == {t \in DOMAIN it.tops : setup[it.tops[t].gen].kind = kind}
GenOf(t) == setup[it.tops[t].gen]
OutOf(t) == it.tops[t].out

RECURSIVE Binomial(_, _)
Binomial(n, k) ==
    IF k = 0 THEN 1 ELSE IF n = 0 THEN 0 ELSE Binomial(n - 1, k - 1) + Binomial(n - 1, k)

AllDistinct(seq) == \A i, j \in DOMAIN seq : i # j => seq[i] # seq[j]
\* the options of the combination are options of the generator, one after the
\* other as the generator holds them
KeepsOrder(combination, options) ==
    \E at \in [DOMAIN combination -> DOMAIN options] :
        /\ \A i \in DOMAIN combination : Values(options)[at[i]] = combination[i]
        /\ \A i, j \in DOMAIN combination : i < j => at[i] < at[j]

\* C21: with n_min <= n_max <= the number of options, OptionsMinMaxOf yields
\* the sum over n in n_min..n_max of (number of options choose n) combinations,
\* no two the same, never a smaller one after a larger one, each with its
\* options in the order of the input.
C21_MinMaxOfYieldsTheCombinations ==
    \A t \in TopsOn("MinMaxOf") :
        LET g == GenOf(t)
            k == Len(g.options)
        IN  g.n_min <= g.n_max /\ g.n_max <= k =>
                /\ AllDistinct(OutOf(t))
                /\ \A i \in 1..(Len(OutOf(t)) - 1) : Len(OutOf(t)[i]) <= Len(OutOf(t)[i + 1])
                /\ \A i \in DOMAIN OutOf(t) : KeepsOrder(OutOf(t)[i], g.options)
                /\ it.tops[t].done =>
                      Len(OutOf(t)) = Sum([i \in 1..(g.n_max - g.n_min + 1) |->
                                              Binomial(k, g.n_min + i - 1)])

\* the combinations of one and of two out of three options, all six yielded
C21_Witness ==
    \E t \in TopsOn("MinMaxOf") :
        /\ Len(GenOf(t).options) = 3 /\ GenOf(t).n_min = 1 /\ GenOf(t).n_max = 2
        /\ it.tops[t].done /\ Len(OutOf(t)) = 6

IsPrefix(seq, whole) == Len(seq) <= Len(whole) /\ seq = SubSeq(whole, 1, Len(seq))

\* C22: OptionsSubsets yields what OptionsMinMaxOf with n_min 0 and n_max the
\* number of options yields, in the same order: the empty combination first,
\* 2^k combinations of k options in all.
C22_SubsetsIsMinMaxOfAll ==
    \A t \in TopsOn("Subsets") :
        LET k == Len(GenOf(t).options)
            all == MinMaxOfOptions(GenOf(t).options, 0, k)
        IN  /\ IsPrefix(OutOf(t), all)
            /\ OutOf(t) # <<>> => OutOf(t)[1] = <<>>
            /\ it.tops[t].done => OutOf(t) = all /\ Len(OutOf(t)) = 2 ^ k

\* the eight subsets of three options
C22_Witness ==
    \E t \in TopsOn("Subsets") :
        /\ Len(GenOf(t).options) = 3
        /\ it.tops[t].done /\ Len(OutOf(t)) = 8

RECURSIVE OptionsOf(_)
\* the lists of a generator, a product's from those of its two generators: the
\* list at position i * n2 + j, counting from 0, is list i of the first
\* followed by list j of the second
OptionsOf(g) ==
    IF g.kind # "Product" THEN LeafOptions(g)
    ELSE LET G1 == OptionsOf(g.o1)
             G2 == OptionsOf(g.o2)
         IN  [n \in 1..(Len(G1) * Len(G2)) |->
                G1[((n - 1) \div Len(G2)) + 1] \o G2[((n - 1) % Len(G2)) + 1]]

\* C23: a product of G1 and G2 yields |G1| * |G2| combinations, the one at
\* position i * |G2| + j being the i-th of G1 followed by the j-th of G2: G1 is
\* the outer loop, G2 the inner one.
C23_ProductOuterInner ==
    \A t \in TopsOn("Product") :
        LET G1 == OptionsOf(GenOf(t).o1)
            G2 == OptionsOf(GenOf(t).o2)
        IN  /\ \A n \in DOMAIN OutOf(t) :
                  /\ n <= Len(G1) * Len(G2)
                  /\ OutOf(t)[n] = G1[((n - 1) \div Len(G2)) + 1] \o G2[((n - 1) % Len(G2)) + 1]
            /\ it.tops[t].done => Len(OutOf(t)) = Len(G1) * Len(G2)

\* a product of two generators of two lists each, enumerated to its end
C23_Witness ==
    \E t \in TopsOn("Product") :
        /\ GenOf(t).o1.kind = "OneOf" /\ GenOf(t).o2.kind = "MinMaxOf"
        /\ it.tops[t].done /\ Len(OutOf(t)) = 4
        /\ OutOf(t)[2] = <<Option("p", NoneV), Option("r", NoneV)>>
        /\ OutOf(t)[3] = <<Option("q", NoneV)>>

\* how often the combination is among the yields
HowOften(out, combination) == Cardinality({n \in DOMAIN out : out[n] = combination})
SameMultiset(out1, out2) ==
    /\ Len(out1) = Len(out2)
    /\ \A n \in DOMAIN out1 : HowOften(out1, out1[n]) = HowOften(out2, out1[n])

\* the setup holds the product of a product with a third generator and the
\* product of a generator with a product, of the same three generators
Associated ==
    /\ Len(setup) = 2
    /\ setup[1].kind = "Product" /\ setup[1].o1.kind = "Product"
    /\ setup[2].kind = "Product" /\ setup[2].o2.kind = "Product"
    /\ setup[1].o1.o1 = setup[2].o1
    /\ setup[1].o1.o2 = setup[2].o2.o1
    /\ setup[1].o2 = setup[2].o2.o2

\* C24: the product is associative: the product of (A times B) with C and the
\* product of A with (B times C), each enumerated to its end, have yielded the
\* same concatenated combinations, each as often as the other.
C24_ProductAssociative ==
    Associated =>
        \A t1, t2 \in DOMAIN it.tops :
            /\ it.tops[t1].gen = 1 /\ it.tops[t2].gen = 2
            /\ it.tops[t1].done /\ it.tops[t2].done
            => SameMultiset(OutOf(t1), OutOf(t2))

\* the two products of three generators of two, two and one lists, each
\* enumerated to its end
C24_Witness ==
    /\ Associated
    /\ \E t1, t2 \in DOMAIN it.tops :
          /\ it.tops[t1].gen = 1 /\ it.tops[t2].gen = 2
          /\ it.tops[t1].done /\ it.tops[t2].done
          /\ Len(OutOf(t1)) = 4 /\ Len(OutOf(t2)) = 4
          /\ setup[2].o2.o2.kind = "AllOf"

\* C25: every option generator can be enumerated again: an iterator that
\* iter_options returns yields the generator's sequence from its start,
\* whatever other iterators on the same generator have been made, and however
\* far they have been consumed.
C25_Restartable ==
    \A t1, t2 \in DOMAIN it.tops :
        it.tops[t1].gen = it.tops[t2].gen /\ Len(OutOf(t1)) <= Len(OutOf(t2)) =>
            /\ IsPrefix(OutOf(t1), OutOf(t2))
            /\ it.tops[t1].done => OutOf(t1) = OutOf(t2)

\* a product with a product in it, enumerated to its end by an iterator made
\* after an earlier one that has been asked once only
C25_Witness ==
    /\ Len(it.tops) = 2 /\ it.tops[1].gen = it.tops[2].gen
    /\ GenOf(1).kind = "Product" /\ GenOf(1).o1.kind = "Product"
    /\ ~it.tops[1].done /\ Len(OutOf(1)) = 1
    /\ it.tops[2].done /\ Len(OutOf(2)) = 4

(***************************************************************************)
(* The costs of the annealing adapter: claims C26 and C27.                 *)
(***************************************************************************)
\* the latest call of compute_cost_value or cost_delta got metrics
CostComputed == sa.last.by # "none" /\ sa.last.outcome = "ok"
\* the cost that call computed for the parameters it evaluated
LastCost ==
    IF sa.last.by = "cost_delta" THEN sa.last.value + sa.last.cost ELSE sa.last.value
\* the metric the adapter optimises, in the metrics that call got
NamedMetric == Get(sa.last.metrics, setup.metric_to_optimise).n

\* C26: the cost of a combination is the metric named metric_to_optimise of
\* the metrics that evaluating the combination gave, negated exactly when
\* minimise_metric is false.  What is evaluated is a full combination, a value
\* for every parameter; compute_cost_value evaluates the state's params.
\* Without a cache the metrics are those of the evaluator for the model of the
\* combination, with a cache those stored for its equivalence class.
C26_CostIsTheNamedMetric ==
    CostComputed =>
        /\ KeySet(sa.last.evaluated) = KeySet(setup.initial_parameters)
        /\ sa.last.by = "compute_cost_value" =>
              /\ sa.last.evaluated = sa.last.before
              /\ pc = "annealing" /\ sa.steps = 0 => sa.cost = LastCost /\ sa.params = sa.last.evaluated
        /\ LastCost = IF setup.minimise_metric THEN NamedMetric ELSE 0 - NamedMetric
        /\ NamedMetric = IF setup.caching
                         THEN Get(CacheGet(cache, sa.last.evaluated).d, setup.metric_to_optimise).n
                         ELSE Metric(sa.last.evaluated)

\* a maximising adapter whose state has just been built: the cost is minus the
\* metric of the initial parameters
C26_Witness ==
    /\ ~setup.minimise_metric /\ ~setup.caching
    /\ pc = "annealing" /\ sa.steps = 0
    /\ sa.last.by = "compute_cost_value"
    /\ sa.cost = 0 - Metric(setup.initial_parameters) /\ sa.cost < 0

\* the parameters at hand overridden by the proposal
Overridden(current, proposal) ==
    [i \in DOMAIN current |->
        <<current[i][1],
          IF current[i][1] \in KeySet(proposal)
          THEN proposal[CHOOSE j \in DOMAIN proposal : proposal[j][1] = current[i][1]][2]
          ELSE current[i][2]>>]
\* the cost of the parameters that the latest call evaluated
CostOfEvaluated ==
    IF setup.minimise_metric THEN NamedMetric ELSE 0 - NamedMetric

\* C27: the cost delta of a proposal is the cost of the state's parameters
\* overridden by the proposal, less the cost the state has; the state's
\* parameters are after the call what they were before it, and are the
\* overridden ones only once apply_state_change has been called.
C27_CostDeltaLeavesTheState ==
    sa.last.by = "cost_delta" =>
        /\ sa.last.evaluated = Overridden(sa.last.before, sa.last.proposal)
        /\ sa.last.outcome = "ok" => sa.last.value = CostOfEvaluated - sa.last.cost
        /\ sa.last.outcome = "ok" /\ ~setup.caching =>
              sa.last.value = (IF setup.minimise_metric THEN 1 ELSE 0 - 1)
                                * Metric(Overridden(sa.last.before, sa.last.proposal))
                              - sa.last.cost
        /\ sa.params = IF sa.last.applied
                       THEN Overridden(sa.last.before, sa.last.proposal)
                       ELSE sa.last.before

\* a proposal that would change the parameters and the cost, not applied
C27_Witness ==
    /\ sa.last.by = "cost_delta" /\ sa.last.outcome = "ok" /\ ~sa.last.applied
    /\ sa.last.evaluated # sa.last.before
    /\ sa.last.value > 0
    /\ sa.params = setup.initial_parameters
    /\ pc = "annealing"

(***************************************************************************)
(* The parallel grid search: claims C28 to C30.                            *)
(***************************************************************************)
ParallelRun == InRun /\ gs.num_processes > 1
\* the combinations of the enumeration that the table found does not hold
PassingExistenceCheck ==
    SelectSeq(EnumerateAll(gs.parameter_options_list),
              LAMBDA params : ~(gs.incremental_skip_existing /\ gs.incremental
                                  /\ Contains(NewCollection(gs.csv_results_path, setup.sort_column_name,
                                                            setup.ascending, gs.incremental, env.found),
                                              params)))
\* the first failed handle in the order of submission, 0 if there is none
FirstFailed ==
    IF AnyFailed
    THEN CHOOSE i \in DOMAIN futures :
            futures[i].outcome = "failed" /\ \A j \in 1..(i - 1) : futures[j].outcome # "failed"
    ELSE 0

\* where a parallel run stands: the draining begins with every combination
\* that passes the existence check submitted, in the order of the enumeration;
\* a run that has returned has drained every handle, one that has raised every
\* handle before the first failed one
C28_AllSubmittedAndDrained ==
    ParallelRun =>
        /\ todo = <<>> =>
              [i \in DOMAIN futures |-> futures[i].params] = PassingExistenceCheck
        /\ (\E i \in DOMAIN futures : futures[i].status = "collected") => todo = <<>>
        /\ pc = "returned" => \A i \in DOMAIN futures : futures[i].status = "collected"
        /\ pc = "raised" =>
              /\ todo = <<>> /\ AnyFailed
              /\ \A i \in DOMAIN futures : futures[i].status = "collected" <=> i < FirstFailed

\* C28: a parallel grid search whose units all complete or fail comes to its
\* end: run returns a result or raises.  No unit is cancelled: every unit
\* submitted completes or fails, whatever became of the others and of the run.
\* Every combination that passes the existence check is submitted, and the
\* handles are drained up to the first failed one.
C28_ParallelRunEnds ==
    /\ []C28_AllSubmittedAndDrained
    /\ (pc = "parallel") ~> (pc \in {"returned", "raised"} /\ AllCompleted)

\* a run that found four of its six combinations in the table, submitted the
\* other two and raised the failure of the first, the second completed
C28_Witness ==
    /\ ParallelRun /\ pc = "raised"
    /\ gs.incremental_skip_existing
    /\ Len(futures) = 2 /\ Len(EnumerateAll(gs.parameter_options_list)) = 6
    /\ FirstFailed = 1 /\ futures[2].status = "done" /\ futures[2].outcome = "ok"

\* the units whose skip decider has been asked: those a worker has run
Decided == {i \in DOMAIN futures : futures[i].status # "queued"}
\* the answer the decider of unit i gave: is_skipped is the unit's first call
AnswerOf(i) == futures[i].calls[1].ret
\* the units that have told their decider
Telling == {i \in Decided : \E k \in DOMAIN futures[i].calls : futures[i].calls[k].op = "tell"}

\* C29: in a parallel grid search with a skip decider, every unit decides as a
\* decider decides that has been told nothing in this run, whatever the other
\* units have told theirs, and the decider of the orchestrator has been told
\* nothing.
C29_DeciderNotShared ==
    (ParallelRun /\ gs.parameter_combination_skip_decider # "none") =>
        /\ told = <<>>
        /\ \A i \in Decided :
              /\ futures[i].calls[1].op = "is_skipped"
              /\ AnswerOf(i) = IF IsSkipped(gs.parameter_combination_skip_decider, <<>>,
                                            futures[i].params)
                               THEN "True" ELSE "False"
              /\ (futures[i].outcome = "skipped") = (AnswerOf(i) = "True")

\* two units have evaluated equivalent combinations and told their deciders,
\* the second after the first: a shared decider would have skipped the second
C29_Witness ==
    /\ ParallelRun /\ gs.parameter_combination_skip_decider = "equivalent"
    /\ \E i, j \in Telling :
          /\ i < j
          /\ futures[i].params # futures[j].params
          /\ Get(futures[i].params, "a") = Get(futures[j].params, "a")
          /\ futures[j].outcome = "ok"

\* the units before handle k that came to a result, in the order of submission
ResultsBefore(k) ==
    SelectSeq([i \in 1..(k - 1) |-> futures[i]], LAMBDA u : u.outcome = "ok")

Indexed(cs) ==
    LET made == SelectSeq(cs, LAMBDA e : e.op = "model_factory")
    IN  [k \in DOMAIN made |-> <<made[k].params, made[k].idx>>]

\* C31: a parallel grid search without skip decider in which nothing failed
\* returns the table that the sequential search over the same options returns,
\* the same rows in the same order, in memory and persisted, and has given
\* every combination the index that the sequential search gives it.
C31_ParallelAsSequential ==
    (ParallelRun /\ pc = "returned" /\ gs.parameter_combination_skip_decider = "none") =>
        LET seq == SequentialRun
        IN  /\ ~seq.raised
            /\ pmc.df = seq.pmc.df
            /\ result.df = seq.pmc.df
            /\ csv_file = seq.file
            /\ Indexed(AllCalls) = Indexed(seq.calls)

\* a parallel search that found a table has returned with the rows of two
\* further combinations, its models saved
C31_Witness ==
    /\ ParallelRun /\ pc = "returned" /\ gs.parameter_combination_skip_decider = "none"
    /\ env.found.exists /\ gs.model_save_directory
    /\ Len(CallsOf("add_values")) = 2
    /\ Len(pmc.df.rows) = Len(env.found.rows) + 2


\* contains has answered on the collection as it is
ContainsAsked == pc = "constructed" /\ result.returned
\* the row r loaded at construction has under the key of entry e the text of
\* the entry's value
SameText(r, e) == Str(Get(pmc.value_dicts[r], e[1])) = Str(e[2])
\* ... or the same number
SameNumber(r, e) ==
    LET ev == Get(pmc.value_dicts[r], e[1])
    IN  ev.ty \in {"int", "float"} /\ e[2].ty \in {"int", "float"} /\ ev.n = e[2].n

\* C32 as stated: contains returns true whenever every key of the record has
\* a textually equal value in some row, the row being free to differ from key
\* to key.
C32_ContainsIfEveryKeyInSomeRow ==
    ContainsAsked =>
        ((\A i \in DOMAIN result.values : \E r \in DOMAIN pmc.value_dicts : SameText(r, result.values[i]))
            => result.ret = "True")

\* C32: contains returns true whenever one row loaded at construction has a
\* textually equal value under every key of the record; the row is the same
\* for all keys, and a record no single row agrees with under every key (in
\* text or as a number) is not found.
C32_ContainsIfOneRowAgrees ==
    ContainsAsked =>
        /\ (\E r \in DOMAIN pmc.value_dicts : \A i \in DOMAIN result.values : SameText(r, result.values[i]))
              => result.ret = "True"
        /\ result.ret = "True"
              => \E r \in DOMAIN pmc.value_dicts : \A i \in DOMAIN result.values :
                    SameText(r, result.values[i]) \/ SameNumber(r, result.values[i])

\* a record of two keys found in a table of which one row agrees under both
\* keys and another under none
C32_Witness ==
    /\ ContainsAsked /\ result.ret = "True"
    /\ Len(result.values) = 2
    /\ \E r, q \in DOMAIN pmc.value_dicts :
          /\ \A i \in DOMAIN result.values : SameText(r, result.values[i])
          /\ \A i \in DOMAIN result.values : ~SameText(q, result.values[i])


\* the collection as the search constructed it on the file it found
CollectionAtConstruction ==
    NewCollection(gs.csv_results_path, setup.sort_column_name, setup.ascending, gs.incremental, env.found)
\* how often the combination was handed to _eval_params: the skip decider was
\* asked of it or, without skip decider, its model was built
HandedToEvalParams(combination) ==
    IF gs.parameter_combination_skip_decider = "none"
    THEN HowOften(ParamsOf(CallsOf("model_factory")), combination)
    ELSE HowOften(ParamsOf(CallsOf("is_skipped")), combination)

SortColumnInTable ==
    /\ pc = "constructed" /\ setup.sort_column_name # NoColumn
    /\ pmc.df.exists /\ setup.sort_column_name \in Range(pmc.df.cols)

\* C34 as stated: a configured sort column that is a column of the table is
\* its first column, whatever was added and whether or not the table was loaded.
C34_SortColumnFirst ==
    SortColumnInTable => pmc.df.cols[1] = setup.sort_column_name

\* C34: the sort column is moved to the front only in the table that
\* add_values creates from its first record; a table loaded in incremental mode
\* takes the columns of its file in their order, a sort column that first
\* appears in a later record is added behind the columns there are, and a
\* column stays where it is in every later add_values.
C34_SortColumnFirstIfInFirstRecord ==
    [][(pc' = "constructed" /\ setup.sort_column_name # NoColumn) =>
          LET sort == setup.sort_column_name
              loads == pc' # pc \/ run_no' # run_no
              adds == Len(calls') = Len(calls) + 1
              values == calls'[Len(calls')].params
          IN  /\ (loads /\ pmc'.df.exists) => pmc'.df.cols = csv_file.cols
              /\ (adds /\ ~pmc.df.exists /\ Has(values, sort)) => pmc'.df.cols[1] = sort
              /\ (adds /\ pmc.df.exists) =>
                    /\ SubSeq(pmc'.df.cols, 1, Len(pmc.df.cols)) = pmc.df.cols
                    /\ (sort \notin Range(pmc.df.cols) /\ Has(values, sort)) =>
                          /\ sort \in Range(pmc'.df.cols)
                          /\ IndexOf(pmc'.df.cols, sort) > Len(pmc.df.cols)]_vars

\* a table created from a record in which the sort column was not the first
\* key has it as first column after a second record brought a further column
C34_Witness ==
    /\ SortColumnInTable /\ pmc.value_dicts = <<>>
    /\ Len(Added) = 2
    /\ Added[1][1][1] # setup.sort_column_name
    /\ Has(Added[1], setup.sort_column_name)
    /\ Keys(Added[2]) \ Keys(Added[1]) # {}
    /\ pmc.df.cols[1] = setup.sort_column_name


\* C35: in every step of an annealing run the results sink keeps its keys; a
\* step that applies a state representation (an accepted change, the end of
\* the run) leaves in the sink the representation's value under each of its
\* keys and the value of before under every other key, any other step leaves
\* the sink as it is, and run returns the sink.
C35_SinkOnlyGrows ==
    [][pc = "annealing" =>
          LET merged == pc' = "returned" \/ (sa'.evals # sa.evals /\ sa'.last.applied)
              representation == sa'.params
          IN  /\ KeySet(sa.results) \subseteq KeySet(sa'.results)
              /\ merged =>
                    /\ KeySet(sa'.results) = KeySet(sa.results) \cup KeySet(representation)
                    /\ \A i \in DOMAIN representation :
                          Get(sa'.results, representation[i][1]) = representation[i][2]
                    /\ \A i \in DOMAIN sa.results :
                          ~Has(representation, sa.results[i][1])
                              => Get(sa'.results, sa.results[i][1]) = sa.results[i][2]
              /\ ~merged => sa'.results = sa.results
              /\ pc' = "returned" => result'.results = sa'.results]_vars

\* a run has returned a sink in which a second accepted change has overwritten
\* the value the first had merged under the same key
C35_Witness ==
    /\ pc = "returned" /\ result.returned
    /\ sa.steps = 2 /\ sa.last.by = "cost_delta" /\ sa.last.applied
    /\ "b" \in KeySet(sa.last.proposal)
    /\ Get(sa.last.before, "b") # Get(setup.initial_parameters, "b")
    /\ Get(result.results, "b") = Get(sa.last.proposal, "b")
    /\ Get(result.results, "b") # Get(sa.last.before, "b")


\* the calls the step has added to the log
NewCalls == SubSeq(calls', Len(calls) + 1, Len(calls'))

\* C36: a cost evaluation of the annealing adapter in which the model factory
\* or the evaluator fails ends the run with the error, no results returned,
\* and leaves the cache, the result collection with its file and the tracking
\* sink as they were: nothing is stored, added or tracked for it; what earlier
\* evaluations stored and added is still there.
C36_FailedEvaluationLeavesNoTrace ==
    [][(sa'.evals # sa.evals /\ sa'.last.outcome = "failed") =>
          /\ pc' = "raised" /\ ~result'.returned
          /\ cache' = cache /\ pmc' = pmc /\ csv_file' = csv_file
          /\ \A k \in DOMAIN NewCalls :
                NewCalls[k].op \notin {"track_values", "add_values", "cache_set"}
          /\ \E k \in DOMAIN NewCalls : NewCalls[k].op = "model_factory"]_vars

\* the evaluator has failed in a step of a run with cache, table and tracking
\* that had stored, added and tracked the initial combination
C36_Witness ==
    /\ pc = "raised" /\ ~result.returned
    /\ sa.last.by = "cost_delta" /\ sa.last.outcome = "failed"
    /\ env.fail_stage = "evaluate"
    /\ setup.caching /\ setup.tracking
    /\ cache # <<>> /\ pmc.df.exists /\ Len(pmc.df.rows) >= 1 /\ csv_file.exists
    /\ Len(CallsOf("track_values")) >= 1
    /\ calls[Len(calls)].op = "compute_metrics"


\* the step is the start of a run: the engine has made the State, which has
\* computed its cost
RunStarts == sa'.evals # sa.evals /\ sa'.last.by = "compute_cost_value"

\* C37: no step of an annealing run changes the adapter's initial parameter
\* combination, so every run, the second on the same adapter too, starts by
\* evaluating that combination as the state of the new run; what the cache and
\* the result collection held before the run, they hold when it has started.
C37_InitialParametersKept ==
    [][pc # "new" =>
          /\ sa'.initial_parameters = setup.initial_parameters
          /\ RunStarts =>
                /\ sa'.last.evaluated = setup.initial_parameters
                /\ sa'.params = setup.initial_parameters
                /\ \A k \in DOMAIN cache : cache[k] \in Range(cache')
                /\ pmc.df.exists => IsPrefix(pmc.df.rows, pmc'.df.rows)]_vars

\* a second run has started from the initial combination after a first run that
\* applied a change (it was evaluated and improved the cost), with the cache
\* and the table of the first run
C37_Witness ==
    /\ run_no = 2 /\ pc = "annealing" /\ sa.steps = 0
    /\ sa.last.by = "compute_cost_value"
    /\ sa.params = setup.initial_parameters
    /\ sa.initial_parameters = setup.initial_parameters
    /\ ~setup.minimise_metric /\ setup.caching
    /\ \E k \in DOMAIN calls :
          calls[k].op = "model_factory" /\ calls[k].params # setup.initial_parameters
    /\ Len(cache) >= 2 /\ pmc.df.exists /\ Len(pmc.df.rows) >= 2


\* the equivalence keys the cache is used with
CacheKeys == {EquivalenceClass(params) : params \in CacheParams}

\* C38: a get leaves the cache as it is and returns the value of the latest
\* earlier set on the equivalence key of its combination, None when there was
\* none; a set leaves that value under its own key and, under every other key,
\* the entry or the absence there was.
C38_GetReadsSetWritesOwnKey ==
    [][Len(cache_log') = Len(cache_log) + 1 =>
          LET e == cache_log'[Len(cache_log')]
              own == EquivalenceClass(e.params)
              sets == {q \in DOMAIN cache_log :
                          /\ cache_log[q].op = "set"
                          /\ EquivalenceClass(cache_log[q].params) = own}
          IN  /\ e.op = "get" =>
                    /\ cache' = cache
                    /\ sets = {} => e.value = NoneV /\ ~Has(cache, own)
                    /\ \A q \in sets :
                          (\A r \in sets : r <= q) => e.value = cache_log[q].value
              /\ e.op = "set" =>
                    /\ Has(cache', own) /\ Get(cache', own) = e.value
                    /\ \A key \in CacheKeys \ {own} :
                          /\ Has(cache', key) = Has(cache, key)
                          /\ Get(cache', key) = Get(cache, key)]_vars

\* a value set for one key was returned by get after a set on another key, and
\* the cache holds both entries
C38_Witness ==
    /\ Len(cache_log) = 3 /\ Len(cache) = 2
    /\ cache_log[1].op = "set" /\ cache_log[2].op = "set" /\ cache_log[3].op = "get"
    /\ EquivalenceClass(cache_log[1].params) # EquivalenceClass(cache_log[2].params)
    /\ EquivalenceClass(cache_log[3].params) = EquivalenceClass(cache_log[1].params)
    /\ cache_log[3].params # cache_log[1].params
    /\ cache_log[1].value # cache_log[2].value
    /\ cache_log[3].value = cache_log[1].value


\* the search has returned without evaluating a combination: the skip decider
\* skipped every one it enumerated, or it enumerated none
ReturnedWithNothingEvaluated ==
    /\ pc = "returned" /\ ~gs.incremental
    /\ Len(SelectSeq(calls, LAMBDA e : e.op = "is_skipped" /\ e.ret = "True"))
          = Len(EnumerateAll(gs.parameter_options_list))

\* C39: a non-incremental grid search in which every combination was skipped,
\* or that had no combination, has returned a Result whose table is None, not
\* an empty table, and get_best_params on that Result raises an error (the
\* ValueError for a missing metric name or direction, else the AttributeError
\* of None) and gives no answer.
C39_NothingEvaluatedGivesNoTable ==
    ReturnedWithNothingEvaluated =>
        /\ result.returned
        /\ result.df = NoDf /\ pmc.df = NoDf
        /\ BestAsked => result.best.outcome \in {"ValueError", "AttributeError"}

\* the skip decider has skipped both combinations of a search sorted by the
\* metric, and get_best_params, asked for the metric with a direction, has
\* failed on the missing table
C39_Witness ==
    /\ ReturnedWithNothingEvaluated /\ BestAsked
    /\ Len(CallsOf("is_skipped")) = 2
    /\ setup.sort_column_name = "m"
    /\ result.metric_name = "m" /\ result.higher_is_better = "True"
    /\ result.best.outcome = "AttributeError"

=============================================================================
